---- MODULE Spec2Model ----
(***************************************************************************)
(* Verification model of uplink-relay: the cache layers, the tiered cache, *)
(* the reload / polling lifecycle and the relay request pipeline.          *)
(*                                                                         *)
(* Time is a discrete wall clock `now`.  time.Unix(0,0), the "never        *)
(* expires" sentinel of cache.go, is the instant 0; the clock starts at 1  *)
(* so that no computed expiration coincides with the sentinel.             *)
(* Cache keys are sequences of tokens: the ':'-separated fields of the     *)
(* string keys built by MakeCacheKey.                                      *)
(***************************************************************************)
EXTENDS Integers, Sequences, FiniteSets, TLC

\* ------------------------------------------------------------------ bounds
MaxTime == 2

MaxKeys == 3

MaxCapacity == 2

MaxTierKeys == 2

MaxReloads == 2

\* The greatest retryCount of a configuration.
MaxRetryCount == 2

\* The most chunks of a manifest, and the most URLs of a chunk.
MaxChunks == 2

MaxURLs == 2

\* The most uplink URLs of a configuration, and the most calls of Next and
\* the most fetcher requests that are followed.
MaxUplinkURLs == 2

MaxCalls == 4

\* The most firings of the ticker or of the cron schedule that are followed.
MaxFirings == 2

\* ------------------------------------------------------------- variables
VARIABLES
  items,         \* MemoryCache.items: key -> [Content, Expiration]
  currentItems,  \* MemoryCache.currentItems
  maxItems,      \* MemoryCache.maxItems
  now,           \* wall clock read by time.Now()
  memOp,         \* the memory-cache call made by the last step, with its result
  memHist,       \* history: whether a Set with duration -1 has been made
  caches,        \* TieredCache.caches: the layers, in probe order
  tierDuration,  \* TieredCache.duration: the duration used for back-fill
  files,         \* FilesystemCache: file name -> content
  redisKeys,     \* RedisCache: key -> [Content, Expiration]
  tierOp,        \* the tiered-cache call made by the last step, with its result
  update,        \* main: SIGHUPs waiting in the `update` channel (capacity 1)
  reloadPc,      \* main: where the reload goroutine stands
  reloads,       \* number of SIGHUPs delivered so far
  server,        \* the HTTP listener: "up" or "down"
  userConfig,    \* the polling section of the configuration in service
  stopPolling,   \* main: tokens buffered in the stopPolling channel
  pollers,       \* the StartPolling goroutines started so far, in order
  studied,       \* the operation whose traffic is studied
  launchID,      \* the supergraph's launchID in the configuration ("": not pinned)
  cacheDuration, \* cache.duration of the configuration
  proc,          \* the goroutines using the cache: where each stands
  newest,        \* history: of the studied operation, the artifacts cached with the latest lastModified
  proxied,       \* history: the handler's last request was proxied and cached, and when
  pollConfig,    \* polling: the supergraphs and the polling section of the configuration
  pollPc,        \* polling: where the pass of pollForUpdates stands
  liveFetches,   \* history: the uplink fetches issued by polling, as <<graph, kind>>
  polledWrites,  \* history: the cache writes made by polling, as <<graph, kind>>
  pass,          \* history: the fetches of the pass under way, and those that failed
  retryCount,    \* uplink.retryCount of the configuration
  wire,          \* the router request RelayHandler is serving, as it came on the wire
  relayPc,       \* RelayHandler: where it stands, and `attempt` of its retry loop
  written,       \* what RelayHandler's ResponseWriter has sent to the router
  trail,         \* history: the cache and uplink calls made for the request
  keyRequest,    \* the router request whose cache key is computed
  keyComputed,   \* the cache key RelayHandler computed for it (<<>>: not yet)
  newestCalls,   \* the calls of UpdateNewest under way: where each stands, and its item
  newestPrior,   \* history: the default-key entry before the calls
  afterFirst,    \* history: the default-key entry after a call's first application
  pqHit,         \* a cache hit on a manifest: the cached id and the request's ifAfterId
  pqResponse,    \* what handleCacheHit answered to it
  relayConfig,   \* relay.publicURL and relay.tls, and whether the graph pins its manifest
  chunkPc,       \* the chunk cacher: the manifest it works on and where it stands
  rewritten,     \* the chunks the chunk cacher returned last, with their new URLs
  chunkResp,      \* what PersistedQueryHandler answered last
  layerCall,      \* one cache layer: the Set made on it and the Get that follows
  mergedConfig,   \* main: the cache section of the configuration passed to startup last
  sched,          \* StartPolling: where it stands, its firings and the passes it has started
  rr,            \* RoundRobinSelector of startup: urls, mu (0: unlocked, else the holder) and nextIndex
  rrCalls,       \* the calls of Next under way: where each caller stands and the URL it holds
  returned,      \* history: the URLs returned by Next, in the order of return
  fetcherURLs, \* history: the URLs the fetcher requests were sent to, in order
  intercepted,    \* modifyProxiedResponse: the answer it last handled and what it did with it
  fetcherCall,    \* a fetcher: the graph's selectors, the call under way and what it has done
  prefixCall,     \* DeleteWithPrefix on one layer: the keys stored before, the prefix, how the call ended
  pinnedServe,    \* RelayHandler on a request for a pinned artifact that misses the cache: the request and the answer
  deleteCall     \* DeleteCacheEntry: its input, the keys stored before, how the call ended

memVars == <<items, currentItems, maxItems, now, memOp, memHist>>

tierVars == <<caches, tierDuration, files, redisKeys, tierOp>>

reloadVars == <<update, reloadPc, reloads, server, userConfig, stopPolling, pollers>>

relayVars == <<studied, launchID, cacheDuration, proc, newest, proxied>>

pollVars == <<pollConfig, pollPc, liveFetches, polledWrites, pass>>

\* The state of the parts studied on their own.
handlerVars == <<retryCount, wire, relayPc, written, trail>>

keyVars == <<keyRequest, keyComputed>>

newestVars == <<newestCalls, newestPrior, afterFirst>>

pqHitVars == <<pqHit, pqResponse>>

chunkVars == <<relayConfig, chunkPc, rewritten, chunkResp>>

layerVars == <<layerCall>>

configVars == <<mergedConfig>>

schedVars == <<sched>>

selectorVars == <<rr, rrCalls, returned, fetcherURLs>>

interceptVars == <<intercepted>>

fetcherVars == <<fetcherCall>>

prefixVars == <<prefixCall>>

pinnedVars == <<pinnedServe>>

deleteVars == <<deleteCall>>

partVars == <<pollVars, handlerVars, keyVars, newestVars, pqHitVars, chunkVars, layerVars, configVars, schedVars, selectorVars, interceptVars, fetcherVars, prefixVars, pinnedVars, deleteVars>>

\* The state of the cache, the lifecycle and the relay pipeline together.
coreVars == <<memVars, tierVars, reloadVars, relayVars>>

\* What the steps of each part leave alone.
nonPollVars == <<coreVars, handlerVars, keyVars, newestVars, pqHitVars, chunkVars, layerVars, configVars, schedVars, selectorVars, interceptVars, fetcherVars, prefixVars, pinnedVars, deleteVars>>

nonHandlerVars == <<coreVars, pollVars, keyVars, newestVars, pqHitVars, chunkVars, layerVars, configVars, schedVars, selectorVars, interceptVars, fetcherVars, prefixVars, pinnedVars, deleteVars>>

nonKeyVars == <<coreVars, pollVars, handlerVars, newestVars, pqHitVars, chunkVars, layerVars, configVars, schedVars, selectorVars, interceptVars, fetcherVars, prefixVars, pinnedVars, deleteVars>>

nonNewestVars == <<tierVars, reloadVars, relayVars, pollVars, handlerVars, keyVars, pqHitVars, chunkVars, layerVars, configVars, schedVars, selectorVars, interceptVars, fetcherVars, prefixVars, pinnedVars, deleteVars>>

nonChunkVars ==
  <<tierVars, reloadVars, relayVars, pollVars, handlerVars, keyVars, newestVars, pqHitVars, layerVars, configVars, schedVars, selectorVars, interceptVars, fetcherVars, prefixVars, pinnedVars, deleteVars>>

nonPqHitVars == <<coreVars, pollVars, handlerVars, keyVars, newestVars, chunkVars, layerVars, configVars, schedVars, selectorVars, interceptVars, fetcherVars, prefixVars, pinnedVars, deleteVars>>

\* What the lifecycle steps leave alone.
cacheVars == <<memVars, tierVars, relayVars, partVars>>

\* What the cache steps leave alone.
restVars == <<reloadVars, relayVars, partVars>>

nonMemVars == <<tierVars, restVars>>

vars == <<memVars, tierVars, reloadVars, relayVars, partVars>>

\* ---------------------------------------------------------- cache package
IndefiniteTimestamp == 0

NoKey == <<>>

KeyNames == <<"key1", "key2", "key3", "key4", "key5">>

TestKeys == {<<KeyNames[i]>> : i \in 1..MaxKeys}

Contents == {"content1", "content2"}

Durations == {-1, 0, 1}

isIndefinite(expirationTime) == expirationTime = IndefiniteTimestamp

timeBeforeWithIndefinite(expirationTime, compareTo) ==
  expirationTime < compareTo /\ ~isIndefinite(expirationTime)

ExpirationTime(duration, t) ==
  IF duration = -1 THEN IndefiniteTimestamp ELSE t + duration

\* ------------------------------------------------------------ MemoryCache
NotFound == [found |-> FALSE, content |-> ""]

MemoryCacheGet(its, t, key) ==
  IF key \notin DOMAIN its \/ timeBeforeWithIndefinite(its[key].Expiration, t)
  THEN NotFound
  ELSE [found |-> TRUE, content |-> its[key].Content]

\* Mutant of CacheFull: the capacity test off by one.
CacheFullOffByOne(cur, max) == cur > max

\* "If the cache is full": the test that opens the eviction branch of Set.
CacheFull(cur, max) == cur >= max

\* Mutant of OldestKeys: the loop without its skip of never-expiring entries.
OldestKeysNoSkip(its) ==
  IF DOMAIN its = {} THEN {NoKey}
  ELSE {k \in DOMAIN its : \A o \in DOMAIN its : ~(its[o].Expiration < its[k].Expiration)}

\* The keys the eviction loop of Set can end on: the loop skips entries with
\* the sentinel expiration and keeps an entry only when it expires strictly
\* before the one held, so it ends on an entry of least expiration among the
\* expiring ones; the map is ranged over in random order, so ties go either
\* way.  With no expiring entry oldestKey stays "" and nothing is deleted.
OldestKeys(its) ==
  LET expiring == {k \in DOMAIN its : ~isIndefinite(its[k].Expiration)}
  IN  IF expiring = {} THEN {NoKey}
      ELSE {k \in expiring :
              \A o \in expiring : ~timeBeforeWithIndefinite(its[o].Expiration, its[k].Expiration)}

Remove(its, key) == [k \in DOMAIN its \ {key} |-> its[k]]

Put(its, key, item) == [k \in DOMAIN its \cup {key} |-> IF k = key THEN item ELSE its[k]]

\* The expiration Set gives a new entry (lines 135-138).
SetExpiration(duration, t) ==
  IF duration = -1 THEN IndefiniteTimestamp ELSE t + duration

\* MemoryCache.Set: the set of outcomes [items, currentItems, evicted].
MemoryCacheSet(its, cur, max, t, key, content, duration) ==
  LET victims == IF CacheFull(cur, max) THEN OldestKeys(its) ELSE {NoKey}
      cur1    == IF CacheFull(cur, max) THEN cur - 1 ELSE cur
  IN  {[items        |-> Put(Remove(its, v), key,
                             [Content |-> content, Expiration |-> SetExpiration(duration, t)]),
        currentItems |-> cur1 + 1,
        evicted      |-> IF CacheFull(cur, max) THEN v ELSE NoKey] : v \in victims}

HasPrefix(key, prefix) ==
  Len(key) >= Len(prefix) /\ SubSeq(key, 1, Len(prefix)) = prefix

\* MemoryCache.DeleteWithPrefix: the set of outcomes [items, currentItems,
\* panicked].  k[:len(prefix)] panics on a key shorter than the prefix; the
\* map is ranged over in random order, so any part of the matching keys may
\* have been deleted when that happens.
DeleteWithPrefixOutcomes(its, cur, prefix, short) ==
  LET matching == {k \in DOMAIN its : HasPrefix(k, prefix)}
      done(D, p) == [items        |-> [k \in DOMAIN its \ D |-> its[k]],
                     currentItems |-> cur - Cardinality(D),
                     panicked     |-> p]
  IN  IF short = {} THEN {done(matching, FALSE)}
      ELSE {done(D, TRUE) : D \in SUBSET matching}

\* Keys written one character, or one name of the same length, to a place:
\* the key with fewer places is the shorter one.
MemoryCacheDeleteWithPrefix(its, cur, prefix) ==
  DeleteWithPrefixOutcomes(its, cur, prefix,
                           {k \in DOMAIN its : Len(k) < Len(prefix)})

\* ------------------------------------------- FilesystemCache, RedisCache
FilesystemCacheGet(fs, key) ==
  IF key \in DOMAIN fs THEN [found |-> TRUE, content |-> fs[key]] ELSE NotFound

\* duration is ignored: the file is written whatever it is.
FilesystemCacheSet(fs, key, content) == Put(fs, key, content)

\* A key set with a TTL is gone once the TTL has run out; Expiration 0
\* stands for "no expiration time", which is what the client makes of a
\* duration of -1 and of a duration of 0 alike.
RedisCacheGet(rk, t, key) ==
  IF key \in DOMAIN rk /\ (rk[key].Expiration = 0 \/ t < rk[key].Expiration)
  THEN [found |-> TRUE, content |-> rk[key].Content]
  ELSE NotFound

RedisCacheSet(rk, t, key, content, d) ==
  Put(rk, key, [Content |-> content,
                Expiration |-> IF d = -1 \/ d = 0 THEN 0 ELSE t + d])

\* ------------------------------------------------------------ TieredCache
NoError == "nil"

TierKeys == {<<KeyNames[i]>> : i \in 1..MaxTierKeys}

TierDurations == {-1, 1}

TierContents == {"content1"}

\* The cache lists main() can build: memory, filesystem and redis, in that
\* order, each if enabled; a tiered cache is built from two or more.
TierConfigs ==
  { <<"Memory", "Filesystem">>, <<"Memory", "Redis">>,
    <<"Filesystem", "Redis">>, <<"Memory", "Filesystem", "Redis">> }

LayerNames == {caches[i] : i \in 1..Len(caches)}

LayerGet(name, key) ==
  CASE name = "Memory"     -> MemoryCacheGet(items, now, key)
    [] name = "Filesystem" -> FilesystemCacheGet(files, key)
    [] name = "Redis"      -> RedisCacheGet(redisKeys, now, key)

\* TieredCache.Get: the loop over the layers, then the statement after the
\* loop.  A hit returns from inside the loop; the go statement that writes
\* to the missed layers stands after the loop, so `spawn` tells whether it
\* is reached with its condition true.
RECURSIVE TieredCacheGetLoop(_, _, _, _)
TieredCacheGetLoop(index, missedCaches, updateContent, key) ==
  IF index > Len(caches)
  THEN [content |-> "", found |-> FALSE, hitLayer |-> 0,
        spawn |-> Len(missedCaches) > 0 /\ updateContent # ""]
  ELSE LET r == LayerGet(caches[index], key)
       IN  IF r.found
           THEN [content |-> r.content, found |-> TRUE, hitLayer |-> index,
                 spawn |-> FALSE]
           ELSE TieredCacheGetLoop(index + 1, Append(missedCaches, caches[index]),
                                   updateContent, key)

TieredCacheGet(key) == TieredCacheGetLoop(1, <<>>, "", key)

\* TieredCache.Set: `err` is assigned by every layer's Set in turn and
\* returned after the loop.
RECURSIVE TieredCacheSetLoop(_, _, _)
TieredCacheSetLoop(errs, index, err) ==
  IF index > Len(errs) THEN err
  ELSE TieredCacheSetLoop(errs, index + 1, errs[index])

TieredCacheSetReturn(errs) == TieredCacheSetLoop(errs, 1, NoError)

\* ---------------------------------------------------- NewMemoryCache etc.
NewMemoryCache ==
  /\ items = <<>>
  /\ currentItems = 0
  /\ maxItems \in 1..MaxCapacity
  /\ now = 1
  /\ memOp = [op |-> "New"]
  /\ memHist = [pinned |-> FALSE]

\* A process that builds no tiered cache.
NoTieredCache ==
  /\ caches = <<>>
  /\ tierDuration = -1
  /\ files = <<>>
  /\ redisKeys = <<>>
  /\ tierOp = [op |-> "New"]

\* No reload in progress, no poller: the lifecycle left out of the picture.
NoLifecycle ==
  /\ update = 0
  /\ reloadPc = "wait"
  /\ reloads = 0
  /\ server = "up"
  /\ userConfig = [enabled |-> FALSE, mode |-> "interval"]
  /\ stopPolling = 0
  /\ pollers = <<>>

\* ---------------------------------------------------- the relay pipeline
\* One supergraph is configured, with no offline license; caching is enabled
\* and the system cache is the memory cache.
GraphRef == "graph@variant"

SupergraphQuery == "SupergraphSdlQuery"

LicenseQuery == "LicenseQuery"

SupergraphPinned == "SupergraphPinned"

LicensePinned == "LicensePinned"

PersistedQueriesPinned == "PersistedQueriesPinned"

Operations == {SupergraphQuery, LicenseQuery}

\* pinning.OperationMapping
OperationMapping(operationName) ==
  CASE operationName = SupergraphQuery -> SupergraphPinned
    [] operationName = LicenseQuery    -> LicensePinned
    [] OTHER                           -> PersistedQueriesPinned

\* Artifacts uplink can hand out: supergraph SDLs or license JWTs; "" is the
\* payload of an Unchanged answer.
Artifacts == {"artifact1", "artifact2"}

Unchanged == ""

PinnedSdl == "launchSdl"

LaunchIDs == {"launch1"}

\* cache.duration: Validate accepts -1 and the positive durations.
CacheDurations == {-1, 1}

\* An ifAfterId is "" or the RFC3339 form of an instant: <<>> or <<t>>.
NoIfAfterId == <<>>

VariableNames == <<"apiKey", "graph_ref", "ifAfterId">>

\* The bodies a router posts: apiKey and graph_ref, and ifAfterId either
\* absent (null) or the id of what the router holds.
RouterVariables ==
  { [n \in {"apiKey", "graph_ref"} |->
       IF n = "apiKey" THEN "service:key" ELSE GraphRef] }
  \cup
  { [n \in {"apiKey", "graph_ref", "ifAfterId"} |->
       CASE n = "apiKey"    -> "service:key"
         [] n = "graph_ref" -> GraphRef
         [] n = "ifAfterId" -> <<1>>] }

\* The requests of a behaviour are those of one operation, `studied`: the
\* entries of different operations meet only in the eviction of Set.
RouterRequests == [operationName : {studied}, Variables : RouterVariables]

\* delete(uplinkRequest.Variables, "apiKey")
DeleteVariable(variables, name) ==
  [n \in DOMAIN variables \ {name} |-> variables[n]]

\* A JSON null, which decodes to nil.
NullValue == <<"null", "null">>

\* Mutant of DefaultIfAfterId: a nil ifAfterId is left as it is.
DefaultIfAfterIdSkipped(variables) == variables

\* if uplinkRequest.Variables["ifAfterId"] == nil { ... = "" }: nil is what
\* an absent name and a JSON null both read as.
DefaultIfAfterId(variables) ==
  [n \in DOMAIN variables \cup {"ifAfterId"} |->
     IF n # "ifAfterId" THEN variables[n]
     ELSE IF n \in DOMAIN variables /\ variables[n] # NullValue THEN variables[n]
     ELSE NoIfAfterId]

\* fmt.Sprint(extraArgs...) of a map: the name:value pairs in the order of
\* the names.
FormatArgs(variables) ==
  LET present == SelectSeq(VariableNames, LAMBDA n : n \in DOMAIN variables)
  IN  [i \in 1..Len(present) |-> <<present[i], variables[present[i]]>>]

\* util.HashString: SHA-256, taken as free of collisions, so that a hash
\* stands for the text hashed.
HashString(text) == <<"sha256", text>>

\* strings.Split(graphRef, "@"): the number of parts.
SplitCount(graphRef) ==
  CASE graphRef \in {"", "graph"} -> 1
    [] graphRef \in {"graph@variant", "other@variant", "graph1@variant",
                     "graph2@variant", "@"} -> 2
    [] graphRef = "graph@variant@extra" -> 3

\* util.ParseGraphRef: whether it returns without error.
ParseGraphRef(graphRef) == SplitCount(graphRef) = 2

\* The prefix is the empty string when the graph ref does not parse.
MakeCachePrefix(graphRef, operationName) ==
  IF ParseGraphRef(graphRef) THEN <<graphRef, operationName>> ELSE <<>>

MakeCacheKey(graphRef, operationName, extraArgs) ==
  Append(MakeCachePrefix(graphRef, operationName), HashString(FormatArgs(extraArgs)))

DefaultCacheKey(graphRef, operationName) ==
  MakeCacheKey(graphRef, operationName,
               [n \in {"graph_ref", "ifAfterId"} |->
                  IF n = "graph_ref" THEN graphRef ELSE NoIfAfterId])

\* The key CacheSchema and CacheLicense store under.
ArtifactCacheKey(graphRef, operationName, ifAfterId) ==
  MakeCacheKey(graphRef, operationName,
               [n \in {"graph_ref", "ifAfterId"} |->
                  IF n = "graph_ref" THEN graphRef ELSE ifAfterId])

\* Mutant of RequestCacheKey: the apiKey left in the variables hashed.
RequestCacheKeyWithApiKey(request) ==
  MakeCacheKey(request.Variables["graph_ref"], request.operationName,
               DefaultIfAfterId(request.Variables))

\* RelayHandler: the key a request is looked up under.
RequestCacheKey(request) ==
  MakeCacheKey(request.Variables["graph_ref"], request.operationName,
               DefaultIfAfterId(DeleteVariable(request.Variables, "apiKey")))

RequestIfAfterId(request) ==
  DefaultIfAfterId(request.Variables)["ifAfterId"]

\* cache.CacheItem, with the fields these paths read.
CacheItem(content, lastModified) ==
  [Content |-> content, Hash |-> HashString(content), LastModified |-> lastModified]

\* The entry UpdateNewest compares with when the default key is not found.
NoFirstEntry ==
  [Content |-> Unchanged, Hash |-> <<>>, LastModified |-> IndefiniteTimestamp]

\* []byte(s) is never nil, whatever s is.
ContentIsNil(content) == FALSE

\* Whether the caching function calls UpdateNewest: CacheSchema if
\* Content != nil, CacheLicense if Content == nil.
CallsUpdateNewest(operationName, item) ==
  IF operationName = SupergraphQuery
  THEN ~ContentIsNil(item.Content)
  ELSE ContentIsNil(item.Content)

\* Mutant of UpdateNewestReplaces: an entry of the same LastModified is
\* replaced too.
UpdateNewestReplacesNotOlder(its, t, graphRef, operationName, passedItem) ==
  IF passedItem.Content = Unchanged THEN FALSE
  ELSE LET entry      == MemoryCacheGet(its, t, DefaultCacheKey(graphRef, operationName))
           firstEntry == IF entry.found THEN entry.content ELSE NoFirstEntry
       IN  /\ firstEntry.LastModified <= passedItem.LastModified
           /\ firstEntry.Hash # passedItem.Hash

\* UpdateNewest up to its Set: whether the default entry is to be replaced.
UpdateNewestReplaces(its, t, graphRef, operationName, passedItem) ==
  IF passedItem.Content = Unchanged THEN FALSE
  ELSE LET entry      == MemoryCacheGet(its, t, DefaultCacheKey(graphRef, operationName))
           firstEntry == IF entry.found THEN entry.content ELSE NoFirstEntry
       IN  /\ firstEntry.LastModified < passedItem.LastModified
           /\ firstEntry.Hash # passedItem.Hash

\* The goroutines that use the cache: a relay handler serving the router,
\* and the fetcher (a polling pass or a webhook delivery).
Handlers == {"handler"}

Fetcher == "fetcher"

Writers == Handlers \cup {Fetcher}

NoRequest == [operationName |-> "", Variables |-> [n \in {"graph_ref"} |-> ""]]

NoItem == CacheItem(Unchanged, IndefiniteTimestamp)

\* A response: status, the X-Cache-Hit header, where the body came from,
\* its typename and its artifact.
Response(status, hit, source, content) ==
  [status |-> status, hit |-> hit, source |-> source,
   typename |-> IF content = Unchanged THEN "Unchanged" ELSE "Result",
   content |-> content]

NoResponse == Response(0, FALSE, "none", Unchanged)

\* A goroutine at rest; launchID is the pin in force when the request came.
IdleProc ==
  [pc |-> "idle", request |-> NoRequest, item |-> NoItem, resp |-> NoResponse,
   launchID |-> ""]

NoProxied == [valid |-> FALSE, time |-> 0]

NoNewest == [lastModified |-> 0, contents |-> {}]

NoRelay ==
  /\ studied = SupergraphQuery
  /\ launchID = ""
  /\ cacheDuration = -1
  /\ proc = [w \in Writers |-> IdleProc]
  /\ newest = NoNewest
  /\ proxied = NoProxied

\* ------------------------------------------------------ polling, at rest
\* config.Config.Supergraphs: the graphs of the configuration, in order.
Supergraphs == <<"graph1@variant", "graph2@variant">>

\* The artifact kinds, in the order pollForUpdates takes them.
PollKinds == <<"supergraph", "entitlements", "persistedQueries">>

\* SupergraphConfig.LaunchID / OfflineLicense / PersistedQueryVersion: for
\* each artifact kind, whether the graph's selector for it is set.
PinSelectors == [{PollKinds[i] : i \in 1..Len(PollKinds)} -> BOOLEAN]

\* PollingConfig.Supergraph / Entitlements / PersistedQueries and RetryCount.
PollingOptions ==
  [enabled : [{PollKinds[i] : i \in 1..Len(PollKinds)} -> BOOLEAN],
   RetryCount : 0..MaxRetryCount]

NoPollPc == [graph |-> 0, stage |-> 0]

\* A pass that has fetched nothing yet: the attempts made per <<graph, kind>>
\* and the fetches whose last attempt failed.
NoPass ==
  [attempts |-> [f \in (1..Len(Supergraphs)) \X {PollKinds[i] : i \in 1..Len(PollKinds)} |-> 0],
   failed |-> {}]

NoPoll ==
  /\ pollConfig = [pins |-> [g \in 1..Len(Supergraphs) |->
                               [k \in {PollKinds[i] : i \in 1..Len(PollKinds)} |-> FALSE]],
                   polling |-> [enabled |-> [k \in {PollKinds[i] : i \in 1..Len(PollKinds)} |-> TRUE],
                                RetryCount |-> 1]]
  /\ pollPc = NoPollPc
  /\ liveFetches = {}
  /\ polledWrites = {}
  /\ pass = NoPass

\* ------------------------------------------------- relay handler, at rest
PersistedQueriesQuery == "PersistedQueriesManifestQuery"

\* The request bodies a router may send: no body, a body that is not JSON,
\* and JSON bodies whose variables.graph_ref is absent or null ("nil"), a
\* number, or a string.
GraphRefStrings == {"graph@variant", "graph", "graph@variant@extra", "@"}

GraphRefValues ==
  {[type |-> "nil", value |-> ""], [type |-> "number", value |-> "42"]}
    \cup [type : {"string"}, value : GraphRefStrings]

WireRequests ==
  [body : {"missing", "invalid"}, graph_ref : {[type |-> "nil", value |-> ""]},
   operationName : {""}]
    \cup [body : {"json"}, graph_ref : GraphRefValues,
          operationName : {SupergraphQuery, LicenseQuery, PersistedQueriesQuery}]

NoWire == [body |-> "missing", graph_ref |-> [type |-> "nil", value |-> ""],
           operationName |-> ""]

\* What the ResponseWriter has sent: status 0 while no header is written.
NothingWritten == [status |-> 0, body |-> "none", hit |-> FALSE, aborted |-> FALSE]

\* http.Error, and any write: the first WriteHeader fixes the status.
Write(w, status, body) ==
  IF w.status = 0 THEN [w EXCEPT !.status = status, !.body = body] ELSE w

\* net/http when the handler returns: a handler that wrote nothing has
\* answered 200 with an empty body.
FinishRequest(w) == Write(w, 200, "empty")

NoTrail == [cacheAccess |-> FALSE, attempts |-> <<>>, logged |-> FALSE]

RelayIdle == [pc |-> "idle", attempt |-> 0]

NoHandler ==
  /\ retryCount = 1
  /\ wire = NoWire
  /\ relayPc = RelayIdle
  /\ written = NothingWritten
  /\ trail = NoTrail

\* ------------------------------------------------------ cache keys, at rest
GraphRefs == {"graph@variant", "other@variant"}

ApiKeys == {"service:key", "service:other"}

\* No apiKey, or no ifAfterId, among the variables.
NoApiKey == ""

AbsentValue == <<"absent", "absent", "absent">>

\* The variables of a router request: graph_ref, apiKey or none, and an
\* ifAfterId that is absent, null, "" or the id of what the router holds.
Variables(graphRef, apiKey, ifAfterId) ==
  [n \in {"graph_ref"} \cup (IF apiKey = NoApiKey THEN {} ELSE {"apiKey"})
                       \cup (IF ifAfterId = AbsentValue THEN {} ELSE {"ifAfterId"}) |->
     CASE n = "graph_ref" -> graphRef
       [] n = "apiKey"    -> apiKey
       [] n = "ifAfterId" -> ifAfterId]

KeyRequests ==
  { [operationName |-> operationName, Variables |-> Variables(graphRef, apiKey, ifAfterId)] :
      operationName \in {SupergraphQuery, LicenseQuery, PersistedQueriesQuery},
      graphRef \in GraphRefs,
      apiKey \in ApiKeys \cup {NoApiKey},
      ifAfterId \in {AbsentValue, NullValue, NoIfAfterId, <<1>>} }

NoKeys ==
  /\ keyRequest = [operationName |-> SupergraphQuery,
                   Variables |-> [n \in {"graph_ref"} |-> GraphRef]]
  /\ keyComputed = <<>>

\* --------------------------------------------------- UpdateNewest, at rest
\* The goroutines that call UpdateNewest at the same time.
Callers == {1, 2}

\* The default-key entry as stored: the CacheItem, or NoFirstEntry if the
\* key holds nothing.
DefaultEntry(its, graphRef, operationName) ==
  IF DefaultCacheKey(graphRef, operationName) \in DOMAIN its
  THEN its[DefaultCacheKey(graphRef, operationName)].Content
  ELSE NoFirstEntry

NoCall == [pc |-> "returned", item |-> NoItem, first |-> NoFirstEntry,
           round |-> 0, wrote |-> FALSE]

NoNewestCalls ==
  /\ newestCalls = [c \in Callers |-> NoCall]
  /\ newestPrior = NoFirstEntry
  /\ afterFirst = NoFirstEntry

\* ------------------------------------------- persisted-query hit, at rest
\* The ids of manifests and the ifAfterIds of requests, each as the parts
\* strings.Split(id, ":") gives: "", "abc:1", "abc:x", "abc:1:1", ":1", ...
ManifestIds ==
  {<<"">>, <<"abc">>, <<"abc", "0">>, <<"abc", "1">>, <<"abc", "2">>, <<"xyz", "1">>,
   <<"abc", "x">>, <<"abc", "1", "1">>, <<"", "1">>, <<"", "-2">>}

\* strconv.Atoi: [ok, n].
Atoi(text) ==
  CASE text = "0"  -> [ok |-> TRUE, n |-> 0]
    [] text = "1"  -> [ok |-> TRUE, n |-> 1]
    [] text = "2"  -> [ok |-> TRUE, n |-> 2]
    [] text = "-2" -> [ok |-> TRUE, n |-> -2]
    [] OTHER       -> [ok |-> FALSE, n |-> 0]

\* persistedqueries.DecodeID.
DecodeID(id) ==
  IF Len(id) # 2 THEN [id |-> "", version |-> -1]
  ELSE IF ~Atoi(id[2]).ok THEN [id |-> "", version |-> -1]
  ELSE [id |-> id[1], version |-> Atoi(id[2]).n]

\* The chunks of the cached manifest.
CachedChunks == <<"chunk1", "chunk2">>

NoPqResponse == [typename |-> "", chunks |-> <<>>]

NoPqHit ==
  /\ pqHit = [cachedID |-> <<"">>, ifAfterId |-> <<"">>]
  /\ pqResponse = NoPqResponse

\* ---------------------------------------- persisted-query chunks, at rest
\* A URL as url.Parse reads it: scheme, host and the segments of its path.
PublicURLs ==
  [scheme : {"http", "https"}, host : {"relay:8080"}, path : {<<>>, <<"pq">>}]

ChunkIDs == {"graph/1", "graph/2"}

\* strconv.Itoa, and the text of ?i= read back as a number.
Itoa(n) ==
  CASE n = 0 -> "0" [] n = 1 -> "1" [] n = 2 -> "2" [] n = 3 -> "3"

IndexOf(text) == CHOOSE n \in 0..3 : Itoa(n) = text

NoChunkPc ==
  [mode |-> "idle", chunks |-> <<>>, c |-> 0, u |-> 0,
   parsedUrl |-> [scheme |-> "", host |-> "", path |-> <<>>],
   newUrls |-> <<>>, out |-> <<>>]

NoChunkResp == [id |-> "", index |-> "", found |-> FALSE, status |-> 0, body |-> <<>>]

NoChunks ==
  /\ relayConfig = [PublicURL |-> [scheme |-> "http", host |-> "relay:8080", path |-> <<>>],
                    TLS |-> FALSE, pinned |-> FALSE, enabled |-> TRUE]
  /\ chunkPc = NoChunkPc
  /\ rewritten = <<>>
  /\ chunkResp = NoChunkResp


\* ------------------------------------------------- a layer used on its own
NoLayerCall ==
  [pc |-> "idle", layer |-> "", key |-> NoKey, content |-> "", duration |-> 0,
   elapsed |-> FALSE, got |-> NotFound]

NoLayerCalls == layerCall = NoLayerCall


\* -------------------------------------------- the configuration in service
\* The cache section of config.NewDefaultConfig(), its maxSize scaled down to
\* the largest capacity studied.
DefaultCacheConfig == [MaxSize |-> MaxCapacity, Duration |-> -1]

NoConfig == mergedConfig = DefaultCacheConfig


\* ------------------------------------------------------ polling scheduler
NoScheduler ==
  [pc |-> "none", enabled |-> FALSE, mode |-> "interval", fired |-> 0, passes |-> 0]

NoSched == sched = NoScheduler


\* ---------------------------------------------------- round-robin selector
NoRrCall == [pc |-> "idle", url |-> ""]

NoSelector ==
  /\ rr = [urls |-> <<>>, mu |-> 0, nextIndex |-> 0]
  /\ rrCalls = [c \in {1, 2} |-> NoRrCall]
  /\ returned = <<>>
  /\ fetcherURLs = <<>>


\* ---------------------------------------------------- response interceptor
NoIntercept ==
  [enabled |-> FALSE, operationName |-> "", content |-> Unchanged,
   cached |-> FALSE, updateNewest |-> FALSE]

NoIntercepted == intercepted = NoIntercept


\* ------------------------------------------------------- fetchers, at rest
NoPinCall == [fn |-> "", value |-> ""]

NoFetcherCall ==
  [LaunchID |-> "", OfflineLicense |-> "", PersistedQueryVersion |-> "",
   kind |-> "", pinning |-> NoPinCall, uplink |-> FALSE, err |-> FALSE]

NoFetcherCalls == fetcherCall = NoFetcherCall


\* ----------------------------------------------- DeleteWithPrefix, at rest
NoPrefixCall == [layer |-> "Memory", before |-> {}, prefix |-> <<>>, pc |-> "none"]

NoPrefixCalls == prefixCall = NoPrefixCall


\* ------------------------------------------- pinned entries served, at rest
NoAnswer == [status |-> 0, typename |-> "", aborted |-> FALSE]

NoPinnedRequest == [operationName |-> "", ifAfterId |-> <<>>, answer |-> NoAnswer]

NoPinnedServe == pinnedServe = NoPinnedRequest


\* ----------------------------------------------- DeleteCacheEntry, at rest
NoDeleteCall == [GraphRef |-> "", Operation |-> <<>>, before |-> {}, pc |-> "none"]

NoDeleteCalls == deleteCall = NoDeleteCall

NoParts == NoPoll /\ NoHandler /\ NoKeys /\ NoNewestCalls /\ NoPqHit /\ NoChunks /\ NoLayerCalls /\ NoConfig /\ NoSched /\ NoSelector /\ NoIntercepted /\ NoFetcherCalls /\ NoPrefixCalls /\ NoPinnedServe /\ NoDeleteCalls

\* The cache, the lifecycle and the relay pipeline at rest.
NoCore ==
  /\ items = <<>> /\ currentItems = 0 /\ maxItems = 1 /\ now = 1
  /\ memOp = [op |-> "New"] /\ memHist = [pinned |-> FALSE]
  /\ NoTieredCache /\ NoLifecycle /\ NoRelay

\* ----------------------------------------------------- memory-cache steps
MemInit == NewMemoryCache /\ NoTieredCache /\ NoLifecycle /\ NoRelay /\ NoParts

MemSet ==
  \E key \in TestKeys, content \in Contents, duration \in Durations :
    \E out \in MemoryCacheSet(items, currentItems, maxItems, now, key, content, duration) :
      /\ items' = out.items
      /\ currentItems' = out.currentItems
      /\ memOp' = [op |-> "Set", key |-> key, duration |-> duration,
                   evicted |-> out.evicted,
                   full |-> CacheFull(currentItems, maxItems)]
      /\ memHist' = [memHist EXCEPT !.pinned = @ \/ duration = -1]
      /\ UNCHANGED <<maxItems, now, nonMemVars>>

MemGet ==
  \E key \in TestKeys :
    /\ memOp' = [op |-> "Get", key |-> key, result |-> MemoryCacheGet(items, now, key)]
    /\ UNCHANGED <<items, currentItems, maxItems, now, memHist, nonMemVars>>

MemDeleteWithPrefix ==
  \E prefix \in TestKeys :
    \E out \in MemoryCacheDeleteWithPrefix(items, currentItems, prefix) :
      /\ items' = out.items
      /\ currentItems' = out.currentItems
      /\ memOp' = [op |-> "DeleteWithPrefix", prefix |-> prefix, panicked |-> out.panicked]
      /\ UNCHANGED <<maxItems, now, memHist, nonMemVars>>

Tick ==
  /\ now < MaxTime
  /\ now' = now + 1
  /\ memOp' = [op |-> "Tick"]
  /\ UNCHANGED <<items, currentItems, maxItems, memHist, nonMemVars>>

MemNext == MemSet \/ MemGet \/ MemDeleteWithPrefix \/ Tick

MemSpec == MemInit /\ [][MemNext]_vars

\* ----------------------------------------------------- tiered-cache steps
\* The filesystem directory outlives the process: it may hold a file of an
\* earlier run.
TierInit ==
  /\ NewMemoryCache
  /\ caches \in TierConfigs
  /\ tierDuration \in TierDurations
  /\ files \in {<<>>, [k \in {<<KeyNames[1]>>} |-> "content2"]}
  /\ ("Filesystem" \notin LayerNames => files = <<>>)
  /\ redisKeys = <<>>
  /\ tierOp = [op |-> "New"]
  /\ NoLifecycle
  /\ NoRelay
  /\ NoParts

TieredGet ==
  \E key \in TierKeys :
    /\ tierOp' = [op |-> "Get", key |-> key, result |-> TieredCacheGet(key)]
    /\ UNCHANGED <<memVars, caches, tierDuration, files, redisKeys, restVars>>

\* One Set per layer, in order.  The memory layer's Set never fails; the
\* filesystem's and redis's may (fsErr, redisErr), and then write nothing.
TieredSet ==
  \E key \in TierKeys, content \in TierContents, d \in TierDurations :
    \E fsErr \in BOOLEAN, redisErr \in BOOLEAN :
      \E mem \in (IF "Memory" \in LayerNames
                  THEN MemoryCacheSet(items, currentItems, maxItems, now, key, content, d)
                  ELSE {[items |-> items, currentItems |-> currentItems, evicted |-> NoKey]}) :
        LET errs == [i \in 1..Len(caches) |->
                       CASE caches[i] = "Memory"     -> NoError
                         [] caches[i] = "Filesystem" -> IF fsErr THEN "Filesystem" ELSE NoError
                         [] caches[i] = "Redis"      -> IF redisErr THEN "Redis" ELSE NoError]
        IN  /\ (fsErr => "Filesystem" \in LayerNames)
            /\ (redisErr => "Redis" \in LayerNames)
            /\ items' = mem.items
            /\ currentItems' = mem.currentItems
            /\ files' = IF "Filesystem" \in LayerNames /\ ~fsErr
                        THEN FilesystemCacheSet(files, key, content) ELSE files
            /\ redisKeys' = IF "Redis" \in LayerNames /\ ~redisErr
                            THEN RedisCacheSet(redisKeys, now, key, content, d) ELSE redisKeys
            /\ tierOp' = [op |-> "Set", key |-> key, errs |-> errs,
                          returned |-> TieredCacheSetReturn(errs)]
            /\ UNCHANGED <<maxItems, now, memOp, memHist, caches, tierDuration, restVars>>

TierNext == TieredGet \/ TieredSet \/ Tick

TierSpec == TierInit /\ [][TierNext]_vars

\* Requests and the clock are never withheld for ever; the tiered cache has
\* no task of its own to schedule.
FairTierSpec == TierSpec /\ WF_vars(TierNext)

\* ------------------------------------------------ tiered-cache properties
LayerHas(j, key) == j <= Len(caches) /\ LayerGet(caches[j], key).found

HitAt(key, i) ==
  tierOp.op = "Get" /\ tierOp.key = key /\ tierOp.result.hitLayer = i

SetFailedAt(key, j) ==
  tierOp.op = "Set" /\ tierOp.key = key /\ j <= Len(caches) /\ tierOp.errs[j] # NoError

\* C6: whenever a tiered Get finds the key first at a layer after the first,
\* eventually every earlier layer holds the key or its Set for the key has
\* returned an error.
C6_BackfillEventually ==
  \A key \in TierKeys : \A i \in 2..3 :
    [](HitAt(key, i) =>
         <>(\A j \in 1..(i - 1) : LayerHas(j, key) \/ SetFailedAt(key, j)))

\* C7: if some layer's Set failed, TieredCache.Set returns the error of the
\* last layer that failed, and it returns nil only when no layer failed.
C7_ReturnsLastError ==
  tierOp.op = "Set" =>
    LET failed == {i \in 1..Len(caches) : tierOp.errs[i] # NoError}
    IN  IF failed = {} THEN tierOp.returned = NoError
        ELSE tierOp.returned = tierOp.errs[CHOOSE i \in failed : \A j \in failed : j <= i]

\* ------------------------------------------------------ reload and polling
\* make(chan bool, 1)
StopPollingCap == 1

\* make(chan os.Signal, 1)
UpdateCap == 1

PollingModes == {"interval", "cron"}

\* The polling configurations a configuration file can hold.
PollingConfigs == [enabled : BOOLEAN, mode : PollingModes]

\* A StartPolling goroutine: pc is "initial" (the pass made at start),
\* "waiting" (blocked on the ticker and the stop channel, or, with cron
\* expressions, on the stop channel alone), "pass" (an interval pass),
\* "cancelled" (the stop token received) or "stopped" (returned); job tells
\* whether a cron job of this scheduler is making a pass.
NewPoller(config) == [pc |-> "initial", mode |-> config.mode, job |-> FALSE]

PollerPc(p) == IF p \in 1..Len(pollers) THEN pollers[p].pc ELSE "unborn"

Running(p) == PollerPc(p) \in {"initial", "waiting", "pass"}

Stopped(p) == PollerPc(p) = "stopped"

Waiting == {p \in 1..Len(pollers) : pollers[p].pc = "waiting"}

\* startup: go polling.StartPolling(...) if polling is enabled.
StartPolling(config) ==
  IF config.enabled THEN Append(pollers, NewPoller(config)) ELSE pollers

LifecycleInit ==
  /\ update = 0
  /\ reloadPc = "wait"
  /\ reloads = 0
  /\ server = "up"
  /\ userConfig \in PollingConfigs
  /\ stopPolling = 0
  /\ pollers = IF userConfig.enabled THEN <<NewPoller(userConfig)>> ELSE <<>>

Alive == reloadPc # "exited"

\* A SIGHUP arrives; signal.Notify drops it when the channel is full.
Sighup ==
  /\ Alive
  /\ reloads < MaxReloads
  /\ update < UpdateCap
  /\ update' = update + 1
  /\ reloads' = reloads + 1
  /\ UNCHANGED <<reloadPc, server, userConfig, stopPolling, pollers, cacheVars>>

\* case syscall.SIGHUP: proxy.ShutdownServer(server, logger)
ReloadShutdown ==
  /\ reloadPc = "wait"
  /\ update > 0
  /\ update' = update - 1
  /\ server' = "down"
  /\ reloadPc' = "send"
  /\ UNCHANGED <<reloads, userConfig, stopPolling, pollers, cacheVars>>

\* stopPolling <- true: a plain channel send.  It hands the token to a
\* goroutine blocked in a receive if there is one, else puts it in the
\* buffer if there is room, else blocks.
ReloadSend ==
  /\ reloadPc = "send"
  /\ \/ \E p \in Waiting :
          /\ pollers' = [pollers EXCEPT ![p].pc = "cancelled"]
          /\ UNCHANGED stopPolling
     \/ /\ Waiting = {}
        /\ stopPolling < StopPollingCap
        /\ stopPolling' = stopPolling + 1
        /\ UNCHANGED pollers
  /\ reloadPc' = "load"
  /\ UNCHANGED <<update, reloads, server, userConfig, cacheVars>>

\* config.LoadConfig, then startup with the new configuration: the new
\* poller is started if polling is enabled, then the listener.
ReloadStartup ==
  /\ reloadPc = "load"
  /\ \E newConfig \in PollingConfigs :
       /\ userConfig' = newConfig
       /\ pollers' = StartPolling(newConfig)
  /\ server' = "up"
  /\ reloadPc' = "wait"
  /\ UNCHANGED <<update, reloads, stopPolling, cacheVars>>

\* LoadConfig or startup fails: os.Exit(1).
ReloadFails ==
  /\ reloadPc = "load"
  /\ reloadPc' = "exited"
  /\ UNCHANGED <<update, reloads, server, userConfig, stopPolling, pollers, cacheVars>>

\* A pass is over and the scheduler comes to its receive on stopPolling
\* (in a select with the ticker, or alone with cron expressions): it takes
\* a token found in the buffer, else it blocks.
ArriveAtReceive(p) ==
  IF stopPolling > 0
  THEN /\ stopPolling' = stopPolling - 1
       /\ pollers' = [pollers EXCEPT ![p].pc = "cancelled"]
  ELSE /\ pollers' = [pollers EXCEPT ![p].pc = "waiting"]
       /\ UNCHANGED stopPolling

\* The pass made at start is over ...
InitialPassDone(p) ==
  /\ Alive
  /\ p \in 1..Len(pollers)
  /\ pollers[p].pc = "initial"
  /\ ArriveAtReceive(p)
  /\ UNCHANGED <<update, reloadPc, reloads, server, userConfig, cacheVars>>

\* The ticker fires: a pass begins ...
IntervalTick(p) ==
  /\ Alive
  /\ p \in 1..Len(pollers)
  /\ pollers[p].pc = "waiting" /\ pollers[p].mode = "interval"
  /\ pollers' = [pollers EXCEPT ![p].pc = "pass"]
  /\ UNCHANGED <<update, reloadPc, reloads, server, userConfig, stopPolling, cacheVars>>

\* ... and ends.
PassDone(p) ==
  /\ Alive
  /\ p \in 1..Len(pollers)
  /\ pollers[p].pc = "pass"
  /\ ArriveAtReceive(p)
  /\ UNCHANGED <<update, reloadPc, reloads, server, userConfig, cacheVars>>

\* A cron expression fires: the job makes a pass on the cron's own task.
CronFire(p) ==
  /\ Alive
  /\ p \in 1..Len(pollers)
  /\ pollers[p].pc = "waiting" /\ pollers[p].mode = "cron" /\ ~pollers[p].job
  /\ pollers' = [pollers EXCEPT ![p].job = TRUE]
  /\ UNCHANGED <<update, reloadPc, reloads, server, userConfig, stopPolling, cacheVars>>

CronJobDone(p) ==
  /\ Alive
  /\ p \in 1..Len(pollers)
  /\ pollers[p].job
  /\ pollers' = [pollers EXCEPT ![p].job = FALSE]
  /\ UNCHANGED <<update, reloadPc, reloads, server, userConfig, stopPolling, cacheVars>>

\* On cancel: stop the ticker or the cron, then return.
PollerReturn(p) ==
  /\ Alive
  /\ p \in 1..Len(pollers)
  /\ pollers[p].pc = "cancelled"
  /\ pollers' = [pollers EXCEPT ![p].pc = "stopped"]
  /\ UNCHANGED <<update, reloadPc, reloads, server, userConfig, stopPolling, cacheVars>>

\* SIGTERM or interrupt: main shuts the server down and returns.
Terminate ==
  /\ Alive
  /\ server' = "down"
  /\ reloadPc' = "exited"
  /\ UNCHANGED <<update, reloads, userConfig, stopPolling, pollers, cacheVars>>

ReloadInit == NewMemoryCache /\ NoTieredCache /\ LifecycleInit /\ NoRelay /\ NoParts

ReloadNext ==
  \/ Sighup \/ ReloadShutdown \/ ReloadSend \/ ReloadStartup \/ ReloadFails
  \/ Terminate
  \/ \E p \in 1..Len(pollers) : InitialPassDone(p)
  \/ \E p \in 1..Len(pollers) : IntervalTick(p)
  \/ \E p \in 1..Len(pollers) : PassDone(p)
  \/ \E p \in 1..Len(pollers) : CronFire(p)
  \/ \E p \in 1..Len(pollers) : CronJobDone(p)
  \/ \E p \in 1..Len(pollers) : PollerReturn(p)

ReloadSpec == ReloadInit /\ [][ReloadNext]_vars

\* Every goroutine that can take a step is scheduled: a pass comes to its
\* end, a cancelled scheduler returns, the reload handler goes on.  Signals
\* and ticks are the environment's and carry no fairness.
FairReloadSpec ==
  /\ ReloadSpec
  /\ WF_vars(ReloadShutdown) /\ WF_vars(ReloadSend) /\ WF_vars(ReloadStartup)
  /\ \A p \in 1..(MaxReloads + 1) :
       /\ WF_vars(InitialPassDone(p))
       /\ WF_vars(PassDone(p))
       /\ WF_vars(CronJobDone(p))
       /\ WF_vars(PollerReturn(p))

\* ----------------------------------------------- reload-polling properties
\* C8: at most one polling scheduler is active at any time (the poller
\* started before a reload is cancelled before that reload's poller starts).
C8_AtMostOnePoller ==
  Cardinality({p \in 1..Len(pollers) : Running(p)}) <= 1

\* C9: the reload handler's send on stopPolling never blocks: whenever the
\* handler stands at the send, a receiver is waiting or the buffer has room.
C9_SendNeverBlocks ==
  reloadPc = "send" => (Waiting # {} \/ stopPolling < StopPollingCap)

\* C10: once the cancellation has been sent (the handler stands just after
\* the send), every scheduler running at that moment eventually returns.
C10_CancelledPollerStops ==
  \A p \in 1..(MaxReloads + 1) :
    []((reloadPc = "load" /\ PollerPc(p) \notin {"unborn", "stopped"})
         => <>(reloadPc = "exited" \/ Stopped(p)))

\* C38: a token left in the stop channel never cancels the scheduler of the
\* reload that follows: whenever the reload handler is back at its wait with
\* a configuration that enables polling, the scheduler started last (the one
\* startup launched for that configuration) is running.
C38_ReloadedPollerRuns ==
  (reloadPc = "wait" /\ userConfig.enabled /\ pollers # <<>>)
    => Running(Len(pollers))

\* ------------------------------------------------ memory-cache properties
Unpinned(its) == {k \in DOMAIN its : ~isIndefinite(its[k].Expiration)}

\* C4: in a memory cache of capacity maxItems, as long as every Set so far
\* carried a duration other than -1, at most maxItems unpinned entries are
\* stored.
C4_UnpinnedWithinCapacity ==
  ~memHist.pinned => Cardinality(Unpinned(items)) <= maxItems

\* C4 witness: a Set at capacity has just evicted an entry and the cache
\* holds exactly maxItems unpinned entries.
C4_Witness ==
  /\ ~memHist.pinned
  /\ memOp.op = "Set" /\ memOp.evicted # NoKey
  /\ Cardinality(Unpinned(items)) = maxItems

\* C5: a Set with duration -1 stores the entry with the never-expires
\* sentinel, and every later step that is neither a DeleteWithPrefix nor a
\* Set of that same key leaves the entry stored, unchanged and returned by
\* Get.
C5_PinnedEntryStays ==
  [][ /\ (memOp'.op = "Set" /\ memOp'.duration = -1) =>
           /\ memOp'.key \in DOMAIN items'
           /\ items'[memOp'.key].Expiration = IndefiniteTimestamp
      /\ \A k \in DOMAIN items :
           ( /\ items[k].Expiration = IndefiniteTimestamp
             /\ memOp'.op # "DeleteWithPrefix"
             /\ ~(memOp'.op = "Set" /\ memOp'.key = k) )
           => /\ k \in DOMAIN items'
              /\ items'[k] = items[k]
              /\ MemoryCacheGet(items', now', k) = [found |-> TRUE, content |-> items[k].Content]
    ]_vars

\* C5 witness: a Set of another key arrived at a full cache, time has
\* passed, and the pinned entry is still returned by Get.
C5_Witness ==
  \E k \in DOMAIN items :
    /\ items[k].Expiration = IndefiniteTimestamp
    /\ memOp.op = "Set" /\ memOp.key # k /\ memOp.full
    /\ now > 1
    /\ MemoryCacheGet(items, now, k).found

RelayInit ==
  /\ NewMemoryCache /\ NoTieredCache /\ NoLifecycle
  /\ studied \in Operations
  /\ launchID = ""
  /\ cacheDuration \in CacheDurations
  /\ proc = [w \in Writers |-> IdleProc]
  /\ newest = NoNewest
  /\ proxied = NoProxied
  /\ NoParts

\* handleCacheHit: the cached item as a response.
handleCacheHit(cacheItem, source) ==
  Response(200, TRUE, source, cacheItem.Content)

\* An ifAfterId that is the empty string: <<>> where it stands for an
\* instant, <<"">> where it stands for the id of a manifest.
EmptyIfAfterId(operationName, ifAfterID) ==
  IF operationName = "PersistedQueriesManifestQuery" THEN ifAfterID = <<"">>
  ELSE ifAfterID = NoIfAfterId

\* time.Parse of an ifAfterId: <<t>> with t < 0 stands for a text that is
\* not a time.
ParsesAsTime(ifAfterID) == ifAfterID[1] >= 0

\* pinning.HandlePinnedEntry: [ok, err, item]; ok is FALSE for the nil
\* result, err tells whether an error came with it.
HandlePinnedEntry(its, t, graphRef, operationName, ifAfterID) ==
  LET raw == MemoryCacheGet(its, t, <<graphRef, OperationMapping(operationName)>>)
      nil(err) == [ok |-> FALSE, err |-> err, item |-> NoItem]
      entry(item) == [ok |-> TRUE, err |-> FALSE, item |-> item]
  IN  IF ~raw.found THEN nil(FALSE)
      ELSE IF EmptyIfAfterId(operationName, ifAfterID) THEN entry(raw.content)
      ELSE IF operationName = "PersistedQueriesManifestQuery"
           THEN IF raw.content.LastModified > t THEN entry(raw.content) ELSE nil(FALSE)
      ELSE IF ~ParsesAsTime(ifAfterID) THEN nil(TRUE)
      ELSE IF operationName = LicenseQuery THEN entry(raw.content)
      ELSE IF raw.content.LastModified > ifAfterID[1]
           THEN entry(raw.content)
           ELSE entry([raw.content EXCEPT !.Content = Unchanged])

\* CacheSchema / CacheLicense up to their first write: the item is built
\* with LastModified = time.Now(), and UpdateNewest, if called, reads the
\* default entry.
StartCaching(w, request, content) ==
  LET item == CacheItem(content, now)
      replaces ==
        /\ CallsUpdateNewest(request.operationName, item)
        /\ UpdateNewestReplaces(items, now, GraphRef, request.operationName, item)
  IN  proc' = [proc EXCEPT ![w] =
                 [pc |-> IF replaces THEN "updateSet" ELSE "set",
                  request |-> request, item |-> item, resp |-> NoResponse,
                  launchID |-> launchID]]

\* What uplink may answer: an artifact, or Unchanged to a request that
\* carries an ifAfterId.
UplinkAnswers(request) ==
  IF RequestIfAfterId(request) = NoIfAfterId THEN Artifacts
  ELSE Artifacts \cup {Unchanged}

\* RelayHandler: a cache hit is answered at once; on a miss the pinned
\* entry is served if the graph is pinned; else the request is proxied and
\* modifyProxiedResponse caches the answer (an answer whose id does not
\* parse makes it fail, and nothing is cached).
Receive(h) ==
  /\ h \in Handlers
  /\ proc[h].pc = "idle"
  /\ \E request \in RouterRequests :
       LET cacheContent == MemoryCacheGet(items, now, RequestCacheKey(request))
           p == [IdleProc EXCEPT !.request = request, !.launchID = launchID]
       IN  IF cacheContent.found
           THEN proc' = [proc EXCEPT ![h] =
                          [p EXCEPT !.resp = handleCacheHit(cacheContent.content, "cache")]]
           ELSE IF request.operationName = SupergraphQuery /\ launchID # ""
           THEN LET s == HandlePinnedEntry(items, now, GraphRef, request.operationName,
                                           RequestIfAfterId(request))
                IN  proc' = [proc EXCEPT ![h] =
                               [p EXCEPT !.resp = IF s.ok THEN handleCacheHit(s.item, "pinned")
                                                  ELSE Response(500, FALSE, "none", Unchanged)]]
           ELSE \/ \E content \in UplinkAnswers(request) :
                     StartCaching(h, request, content)
                \/ proc' = [proc EXCEPT ![h] =
                              [p EXCEPT !.resp = Response(502, FALSE, "uplink", Unchanged)]]
  /\ proxied' = NoProxied
  /\ UNCHANGED <<memVars, studied, launchID, cacheDuration, newest, tierVars, reloadVars, partVars>>

\* pinning.PinLaunchID: the launch's schema is stored under the pinned key
\* with duration -1, then the launch is written into the configuration.
PinLaunchID(launch) ==
  /\ \E completedAt \in 1..now :
     \E o \in MemoryCacheSet(items, currentItems, maxItems, now,
                             <<GraphRef, SupergraphPinned>>,
                             CacheItem(PinnedSdl, completedAt), -1) :
       /\ items' = o.items
       /\ currentItems' = o.currentItems
  /\ launchID' = launch
  /\ proxied' = NoProxied

\* The PinSchema mutation of the management API.
PinSchema ==
  /\ \E launch \in LaunchIDs :
       /\ launchID # launch
       /\ PinLaunchID(launch)
  /\ UNCHANGED <<maxItems, now, memOp, memHist, studied, cacheDuration, proc, newest,
                 tierVars, reloadVars, partVars>>

\* A fetch of the poller or of the webhook: FetchSchema (PinLaunchID if the
\* graph is pinned) or FetchRouterLicense, both with ifAfterId "".
Fetch ==
  /\ proc[Fetcher].pc = "idle"
  /\ LET operationName == studied
     IN
       IF operationName = SupergraphQuery /\ launchID # ""
       THEN /\ PinLaunchID(launchID)
            /\ UNCHANGED <<proc>>
       ELSE /\ \E content \in Artifacts :
                 StartCaching(Fetcher,
                              [operationName |-> operationName,
                               Variables |-> [n \in {"apiKey", "graph_ref", "ifAfterId"} |->
                                                CASE n = "apiKey"    -> "service:key"
                                                  [] n = "graph_ref" -> GraphRef
                                                  [] n = "ifAfterId" -> NoIfAfterId]],
                              content)
            /\ UNCHANGED <<items, currentItems, launchID, proxied>>
  /\ UNCHANGED <<maxItems, now, memOp, memHist, studied, cacheDuration, newest,
                 tierVars, reloadVars, partVars>>

\* UpdateNewest's write: systemCache.Set(cacheKey, ..., -1) on the default
\* key, decided by the read made before.
UpdateNewestSet(w) ==
  /\ w \in Writers
  /\ proc[w].pc = "updateSet"
  /\ \E o \in MemoryCacheSet(items, currentItems, maxItems, now,
                             DefaultCacheKey(GraphRef, proc[w].request.operationName),
                             proc[w].item, -1) :
       /\ items' = o.items
       /\ currentItems' = o.currentItems
  /\ proc' = [proc EXCEPT ![w].pc = "set"]
  /\ proxied' = NoProxied
  /\ UNCHANGED <<maxItems, now, memOp, memHist, studied, launchID, cacheDuration, newest,
                 tierVars, reloadVars, partVars>>

\* The artifact written last and latest, per operation.
Newer(n, item) ==
  IF item.Content = Unchanged \/ item.LastModified < n.lastModified THEN n
  ELSE IF item.LastModified = n.lastModified
       THEN [n EXCEPT !.contents = @ \cup {item.Content}]
       ELSE [lastModified |-> item.LastModified, contents |-> {item.Content}]

\* The last statement of CacheSchema and CacheLicense:
\* systemCache.Set(cacheKey, ..., duration); the handler then lets the
\* proxied response through.
CacheSet(w) ==
  /\ w \in Writers
  /\ proc[w].pc = "set"
  /\ LET request == proc[w].request
         item    == proc[w].item
     IN  /\ \E o \in MemoryCacheSet(items, currentItems, maxItems, now,
                                    ArtifactCacheKey(GraphRef, request.operationName,
                                                     RequestIfAfterId(request)),
                                    item, cacheDuration) :
              /\ items' = o.items
              /\ currentItems' = o.currentItems
         /\ newest' = Newer(newest, item)
         /\ IF w \in Handlers
            THEN /\ proc' = [proc EXCEPT ![w].pc = "idle",
                               ![w].resp = Response(200, FALSE, "uplink", item.Content)]
                 /\ proxied' = [valid |-> TRUE, time |-> now]
            ELSE /\ proc' = [proc EXCEPT ![w] = IdleProc]
                 /\ proxied' = NoProxied
  /\ UNCHANGED <<maxItems, now, memOp, memHist, studied, launchID, cacheDuration,
                 tierVars, reloadVars, partVars>>

RelayNext ==
  \/ \E h \in Handlers : Receive(h)
  \/ Fetch
  \/ PinSchema
  \/ \E w \in Writers : UpdateNewestSet(w)
  \/ \E w \in Writers : CacheSet(w)
  \/ Tick

RelaySpec == RelayInit /\ [][RelayNext]_vars

\* ------------------------------------------------- relay-pipeline properties
\* Whether an entry set at `time` with cache.duration is still served at t.
WithinDuration(time, t) == cacheDuration = -1 \/ t - time <= cacheDuration

Quiet == \A w \in Writers : proc[w].pc = "idle"

\* C2: when no write is under way, the default-key entry of the operation,
\* if one is served, holds an artifact of greatest lastModified among the
\* artifacts cached so far.
C2_DefaultHoldsNewest ==
  (Quiet /\ newest.contents # {}) =>
    LET entry == MemoryCacheGet(items, now, DefaultCacheKey(GraphRef, studied))
    IN  entry.found => entry.content.Content \in newest.contents

\* C3: a SupergraphSdlQuery that came while the graph was pinned and was
\* answered with a body was answered from the pinned entry.
C3_PinnedServed ==
  \A h \in Handlers :
    (/\ proc[h].pc = "idle"
     /\ proc[h].request.operationName = SupergraphQuery
     /\ proc[h].launchID # ""
     /\ proc[h].resp.status = 200)
    => (proc[h].resp.source = "pinned" /\ proc[h].resp.content \in {PinnedSdl, Unchanged})

\* ------------------------------------------------------------ polling pass
PollInit ==
  /\ NoCore
  /\ pollConfig \in [pins : [1..Len(Supergraphs) -> PinSelectors],
                     polling : PollingOptions]
  /\ pollPc = NoPollPc
  /\ liveFetches = {}
  /\ polledWrites = {}
  /\ pass = NoPass
  /\ NoHandler /\ NoKeys /\ NoNewestCalls /\ NoPqHit /\ NoChunks /\ NoLayerCalls /\ NoConfig /\ NoSched /\ NoSelector /\ NoIntercepted /\ NoFetcherCalls /\ NoPrefixCalls /\ NoPinnedServe /\ NoDeleteCalls

\* pollForUpdates, from the top of the range over Supergraphs at graph g:
\* the retry loop is entered when 0 < RetryCount.
RECURSIVE EnterGraph(_)
EnterGraph(g) ==
  IF g > Len(Supergraphs) THEN NoPollPc
  ELSE IF 0 < pollConfig.polling.RetryCount THEN [graph |-> g, stage |-> 1]
  ELSE EnterGraph(g + 1)

\* The ticker or a cron job calls pollForUpdates.
PollForUpdates ==
  /\ pollPc = NoPollPc
  /\ pollPc' = EnterGraph(1)
  /\ pass' = NoPass
  /\ UNCHANGED <<pollConfig, liveFetches, polledWrites, nonPollVars>>

\* After the stage of one kind: the next kind, or `success = true` and the
\* next graph.
AfterStage ==
  IF pollPc.stage < Len(PollKinds) THEN [pollPc EXCEPT !.stage = @ + 1]
  ELSE EnterGraph(pollPc.graph + 1)

\* Mutant of AfterBreak: the failed fetch ends the pass, as a `return` in
\* place of the `break` would.
AfterBreakReturns == NoPollPc

\* After a failed fetch: `break` leaves the retry loop, the failure of the
\* graph is logged and the range over the graphs goes on.
AfterBreak == EnterGraph(pollPc.graph + 1)

\* One `if *userConfig.Polling.<Kind>` block of the loop body: the fetch
\* from uplink and, when it succeeds, systemCache.Set. A failed fetch leaves
\* the retry loop by `break`, so the pass moves to the next graph.
PollKind ==
  /\ pollPc # NoPollPc
  /\ LET kind == PollKinds[pollPc.stage]
         graph == pollPc.graph
     IN  IF ~pollConfig.polling.enabled[kind]
         THEN /\ pollPc' = AfterStage
              /\ UNCHANGED <<liveFetches, polledWrites, pass>>
         ELSE /\ liveFetches' = liveFetches \cup {<<graph, kind>>}
              /\ \E err \in BOOLEAN :
                   /\ pass' = [attempts |-> [pass.attempts EXCEPT ![<<graph, kind>>] = @ + 1],
                               failed |-> IF err THEN pass.failed \cup {<<graph, kind>>}
                                          ELSE pass.failed \ {<<graph, kind>>}]
                   /\ IF err
                      THEN /\ pollPc' = AfterBreak
                           /\ UNCHANGED polledWrites
                      ELSE /\ pollPc' = AfterStage
                           /\ polledWrites' = polledWrites \cup {<<graph, kind>>}
  /\ UNCHANGED <<pollConfig, nonPollVars>>

PollNext ==
  \/ PollForUpdates
  \/ PollKind

PollSpec == PollInit /\ [][PollNext]_vars

\* The goroutine making a pass goes on running (every fetch returns, with
\* an answer or with an error after the client's timeout), and the ticker
\* or the cron schedule keeps firing.
FairPollSpec == PollSpec /\ WF_vars(PollKind) /\ WF_vars(PollForUpdates)

\* The graph pins the artifact kind.
PinsKind(graph, kind) == pollConfig.pins[graph][kind]

\* C11: polling issues no uplink fetch and makes no cache write for an
\* artifact kind of a graph that pins that kind.
C11_PinnedKindNotPolled ==
  \A f \in liveFetches \cup polledWrites : ~PinsKind(f[1], f[2])

\* ------------------------------------------------- relay handler, miss path
HandlerInit ==
  /\ NoCore /\ NoPoll /\ NoKeys /\ NoNewestCalls /\ NoPqHit /\ NoChunks /\ NoLayerCalls /\ NoConfig /\ NoSched /\ NoSelector /\ NoIntercepted /\ NoFetcherCalls /\ NoPrefixCalls /\ NoPinnedServe /\ NoDeleteCalls
  /\ retryCount \in 1..MaxRetryCount
  /\ wire = NoWire
  /\ relayPc = RelayIdle
  /\ written = NothingWritten
  /\ trail = NoTrail

\* RelayHandler from its entry to the retry loop: the three checks of the
\* request, then the cache lookup. The type assertion .(string) on a
\* graph_ref that is not a string panics; net/http recovers the panic and
\* closes the connection without an answer.
ServeRelay ==
  /\ relayPc.pc = "idle"
  /\ \E request \in WireRequests :
       /\ wire' = request
       /\ IF \/ request.body # "json"
             \/ request.graph_ref.type = "nil"
             \/ (request.graph_ref.type = "string" /\ ~ParseGraphRef(request.graph_ref.value))
          THEN /\ written' = Write(NothingWritten, 400, "Bad Request")
               /\ trail' = NoTrail
               /\ relayPc' = RelayIdle
          ELSE IF request.graph_ref.type # "string"
          THEN /\ written' = [NothingWritten EXCEPT !.aborted = TRUE]
               /\ trail' = NoTrail
               /\ relayPc' = RelayIdle
          ELSE /\ trail' = [NoTrail EXCEPT !.cacheAccess = TRUE]
               /\ \E keyFound \in BOOLEAN :
                    IF keyFound
                    THEN /\ written' = [Write(NothingWritten, 200, "cached") EXCEPT !.hit = TRUE]
                         /\ relayPc' = RelayIdle
                    ELSE /\ written' = NothingWritten
                         /\ relayPc' = [pc |-> "miss", attempt |-> 0]
  /\ UNCHANGED <<retryCount, nonHandlerVars>>

\* What may happen to one proxied attempt: the uplink URL does not parse,
\* the round trip fails, or uplink answers with a valid response; in the
\* last case the cache write, or the caching of the chunks of a manifest,
\* may fail.
AttemptOutcomes(operationName) ==
  [proxy : {"url", "transport"}, cacheFails : {FALSE}, chunkFails : {FALSE}]
    \cup [proxy : {"answered"}, cacheFails : BOOLEAN,
          chunkFails : IF operationName = PersistedQueriesQuery THEN BOOLEAN ELSE {FALSE}]

\* modifyProxiedResponse on a valid response: [err, logged]. CacheSchema's
\* error and CachePersistedQueryChunkData's error are returned; CacheLicense's
\* error and the error of the Set of a manifest are only logged.
modifyProxiedResponse(operationName, outcome) ==
  CASE operationName = SupergraphQuery ->
         [err |-> outcome.cacheFails, logged |-> outcome.cacheFails]
    [] operationName = LicenseQuery ->
         [err |-> FALSE, logged |-> outcome.cacheFails]
    [] operationName = PersistedQueriesQuery ->
         IF outcome.chunkFails THEN [err |-> TRUE, logged |-> TRUE]
         ELSE [err |-> FALSE, logged |-> outcome.cacheFails]

\* handleCacheMiss: [err, w, interceptor], the error it returns, what the
\* writer has sent afterwards, and whether the interceptor returned an
\* error. proxy.ErrorHandler only logs: after a failed round trip or an
\* interceptor error nothing is written and handleCacheMiss returns nil.
handleCacheMiss(operationName, outcome, w) ==
  CASE outcome.proxy = "url" ->
         [err |-> TRUE, w |-> Write(w, 503, "Uplink Service Unavailable"),
          interceptor |-> FALSE, logged |-> TRUE]
    [] outcome.proxy = "transport" ->
         [err |-> FALSE, w |-> w, interceptor |-> FALSE, logged |-> TRUE]
    [] outcome.proxy = "answered" ->
         LET modified == modifyProxiedResponse(operationName, outcome)
         IN  [err |-> FALSE,
              w |-> IF modified.err THEN w ELSE Write(w, 200, "upstream"),
              interceptor |-> modified.err, logged |-> modified.logged]

\* One turn of the retry loop of RelayHandler: the attempt, then either the
\* next attempt, the 500 after the last one, or the end of the handler.
ProxyAttempt ==
  /\ relayPc.pc = "miss"
  /\ \E outcome \in AttemptOutcomes(wire.operationName) :
       LET miss == handleCacheMiss(wire.operationName, outcome, written)
       IN  /\ trail' = [trail EXCEPT
                          !.attempts = Append(@, [proxy |-> outcome.proxy,
                                                  cacheFails |-> outcome.cacheFails,
                                                  chunkFails |-> outcome.chunkFails,
                                                  interceptor |-> miss.interceptor]),
                          !.logged = miss.logged]
           /\ IF miss.err
              THEN IF relayPc.attempt = retryCount
                   THEN /\ written' = Write(miss.w, 500, "Internal Server Error")
                        /\ relayPc' = RelayIdle
                   ELSE /\ written' = miss.w
                        /\ relayPc' = [relayPc EXCEPT !.attempt = @ + 1]
              ELSE /\ written' = FinishRequest(miss.w)
                   /\ relayPc' = RelayIdle
  /\ UNCHANGED <<retryCount, wire, nonHandlerVars>>

HandlerNext ==
  \/ ServeRelay
  \/ ProxyAttempt

HandlerSpec == HandlerInit /\ [][HandlerNext]_vars

\* The handler has finished with the request in `wire`.
Served == relayPc.pc = "idle" /\ written # NothingWritten

\* The attempt failed with a transport error or an interceptor error.
AttemptFailed(a) == a.proxy = "transport" \/ a.interceptor

\* C12: on the miss path an attempt that fails with an interceptor or
\* transport error is retried, with at most uplink.retryCount retries, and
\* when every attempt has failed the router receives status 500.
C12_RetriesThen500 ==
  /\ Len(trail.attempts) <= retryCount + 1
  /\ (/\ Served
      /\ trail.attempts # <<>>
      /\ \A i \in 1..Len(trail.attempts) : AttemptFailed(trail.attempts[i]))
     => (Len(trail.attempts) = retryCount + 1 /\ written.status = 500)

\* The request is one the handler is to reject: no body, a body that is not
\* JSON, no graph_ref, or a graph_ref that is not a string graphID@variantID.
Malformed(request) ==
  \/ request.body # "json"
  \/ request.graph_ref.type # "string"
  \/ SplitCount(request.graph_ref.value) # 2

\* C13: a malformed request is answered with status 400, with no cache
\* access and no uplink contact.
C13_MalformedIs400 ==
  (Served /\ Malformed(wire))
    => (/\ written.status = 400 /\ ~written.aborted
        /\ ~trail.cacheAccess /\ trail.attempts = <<>>)

\* C14: when uplink answered with a valid response and the cache write, or
\* the caching of the chunks, failed, the failure is logged and the router
\* receives the upstream content.
C14_CacheFailureOnlyLogged ==
  (/\ Served
   /\ trail.attempts # <<>>
   /\ LET last == trail.attempts[Len(trail.attempts)]
      IN  last.proxy = "answered" /\ (last.cacheFails \/ last.chunkFails))
    => (trail.logged /\ written.status = 200 /\ written.body = "upstream")

\* --------------------------------------------------------------- cache keys
KeyInit ==
  /\ NoCore /\ NoPoll /\ NoHandler /\ NoNewestCalls /\ NoPqHit /\ NoChunks /\ NoLayerCalls /\ NoConfig /\ NoSched /\ NoSelector /\ NoIntercepted /\ NoFetcherCalls /\ NoPrefixCalls /\ NoPinnedServe /\ NoDeleteCalls
  /\ keyRequest \in KeyRequests
  /\ keyComputed = <<>>

\* RelayHandler computes the cache key of the request.
ComputeKey ==
  /\ keyComputed = <<>>
  /\ keyComputed' = RequestCacheKey(keyRequest)
  /\ UNCHANGED <<keyRequest, nonKeyVars>>

\* The next request comes.
NextKeyRequest ==
  /\ keyComputed # <<>>
  /\ keyRequest' \in KeyRequests
  /\ keyComputed' = <<>>
  /\ UNCHANGED <<nonKeyVars>>

KeyNext ==
  \/ ComputeKey
  \/ NextKeyRequest

KeySpec == KeyInit /\ [][KeyNext]_vars

\* The request carries no conditional token: ifAfterId is absent, null or "".
NoConditionalToken(request) ==
  \/ "ifAfterId" \notin DOMAIN request.Variables
  \/ request.Variables["ifAfterId"] \in {NullValue, NoIfAfterId}

PriorEntries ==
  {<<>>} \cup
  { (DefaultCacheKey(GraphRef, SupergraphQuery) :>
       [Content |-> CacheItem(content, lastModified),
        Expiration |-> SetExpiration(duration, lastModified)]) :
      content \in Artifacts, lastModified \in 1..MaxTime, duration \in CacheDurations }

\* The items passed to UpdateNewest: an artifact, or an empty Content.
PassedItems ==
  { CacheItem(content, lastModified) :
      content \in Artifacts \cup {Unchanged}, lastModified \in 1..MaxTime }

NewCall(item) ==
  [pc |-> "called", item |-> item, first |-> NoFirstEntry, round |-> 1, wrote |-> FALSE]

\* The cache as the calls find it.
NewestCache ==
  /\ items \in PriorEntries
  /\ currentItems = Cardinality(DOMAIN items)
  /\ maxItems \in 1..MaxCapacity
  /\ now \in 1..MaxTime
  /\ \A k \in DOMAIN items : items[k].Content.LastModified <= now
  /\ memOp = [op |-> "New"]
  /\ memHist = [pinned |-> FALSE]
  /\ NoTieredCache /\ NoLifecycle /\ NoRelay
  /\ NoPoll /\ NoHandler /\ NoKeys /\ NoPqHit /\ NoChunks /\ NoLayerCalls /\ NoConfig /\ NoSched /\ NoSelector /\ NoIntercepted /\ NoFetcherCalls /\ NoPrefixCalls /\ NoPinnedServe /\ NoDeleteCalls
  /\ newestPrior = DefaultEntry(items, GraphRef, SupergraphQuery)
  /\ afterFirst = NoFirstEntry

\* Two goroutines call UpdateNewest for the same graph and operation.
NewestInit ==
  /\ NewestCache
  /\ newestCalls \in [Callers -> {NewCall(item) : item \in PassedItems}]
  /\ \A c \in Callers : newestCalls[c].item.LastModified <= now

\* The entry UpdateNewest compares the passed item with.
FirstEntry(its, t, graphRef, operationName) ==
  LET entry == MemoryCacheGet(its, t, DefaultCacheKey(graphRef, operationName))
  IN  IF entry.found THEN entry.content ELSE NoFirstEntry

\* Mutant of NewestEntry: the entry found is changed in place, its Content
\* alone taken from the passed item.
NewestEntryInPlace(firstEntry, passedItem) ==
  [firstEntry EXCEPT !.Content = passedItem.Content]

\* Mutant of NewestEntry: the passed item is stamped one later than the
\* entry found and keeps that entry's hash.
NewestEntryRestamped(firstEntry, passedItem) ==
  [passedItem EXCEPT !.LastModified = firstEntry.LastModified + 1,
                     !.Hash = firstEntry.Hash]

\* What UpdateNewest writes under the default key: json.Marshal(passedItem).
NewestEntry(firstEntry, passedItem) == passedItem

\* UpdateNewest up to its Set: the guard on the Content, the Get of the
\* default key and the comparison.
UpdateNewestGet(c) ==
  /\ newestCalls[c].pc = "called"
  /\ newestCalls' = [newestCalls EXCEPT
       ![c].pc = IF UpdateNewestReplaces(items, now, GraphRef, studied, newestCalls[c].item)
                 THEN "set" ELSE "returned",
       ![c].first = FirstEntry(items, now, GraphRef, studied)]
  /\ UNCHANGED <<memVars, newestPrior, afterFirst, nonNewestVars>>

\* UpdateNewest's systemCache.Set(cacheKey, ..., -1).
UpdateNewestPut(c) ==
  /\ newestCalls[c].pc = "set"
  /\ \E o \in MemoryCacheSet(items, currentItems, maxItems, now,
                             DefaultCacheKey(GraphRef, studied),
                             NewestEntry(newestCalls[c].first, newestCalls[c].item), -1) :
       /\ items' = o.items
       /\ currentItems' = o.currentItems
  /\ newestCalls' = [newestCalls EXCEPT ![c].pc = "returned", ![c].wrote = TRUE]
  /\ UNCHANGED <<maxItems, now, memOp, memHist, newestPrior, afterFirst, nonNewestVars>>

NewestNext ==
  \/ \E c \in Callers : UpdateNewestGet(c)
  \/ \E c \in Callers : UpdateNewestPut(c)
  \/ Tick

NewestSpec == NewestInit /\ [][NewestNext]_vars

\* Both calls have returned.
BothReturned == \A c \in Callers : newestCalls[c].round = 1 /\ newestCalls[c].pc = "returned"

\* C16 as stated: after two concurrent calls of UpdateNewest the default-key
\* entry is one of the two items passed, whole.
C16_FinalIsAnInput ==
  BothReturned
    => DefaultEntry(items, GraphRef, studied) \in {newestCalls[c].item : c \in Callers}

\* C16, amended: after two concurrent calls of UpdateNewest the default-key
\* entry is one of the two items passed, whole, or the entry that was there
\* before the calls; it is never a mixture.
C16_FinalIsInputOrPrior ==
  BothReturned
    => DefaultEntry(items, GraphRef, studied)
         \in {newestCalls[c].item : c \in Callers} \cup {newestPrior}

\* C16 witness: both calls wrote, with different items, and the entry is the
\* older of the two.
C16_Witness ==
  /\ BothReturned
  /\ \A c \in Callers : newestCalls[c].wrote
  /\ \E c, d \in Callers :
       /\ newestCalls[c].item.LastModified < newestCalls[d].item.LastModified
       /\ newestCalls[c].item.Content # newestCalls[d].item.Content
       /\ DefaultEntry(items, GraphRef, studied) = newestCalls[c].item

\* ------------------------------------------------- UpdateNewest, twice over
\* One goroutine calls UpdateNewest, and then once more with the same item.
TwiceInit ==
  /\ NewestCache
  /\ \E item \in PassedItems :
       /\ item.LastModified <= now
       /\ newestCalls = [c \in Callers |-> IF c = 1 THEN NewCall(item) ELSE NoCall]

\* The second call, with the item of the first.
ApplyAgain(c) ==
  /\ newestCalls[c].pc = "returned"
  /\ newestCalls[c].round = 1
  /\ afterFirst' = DefaultEntry(items, GraphRef, studied)
  /\ newestCalls' = [newestCalls EXCEPT ![c].pc = "called", ![c].round = 2]
  /\ UNCHANGED <<memVars, newestPrior, nonNewestVars>>

TwiceNext ==
  \/ \E c \in Callers : UpdateNewestGet(c)
  \/ \E c \in Callers : UpdateNewestPut(c)
  \/ \E c \in Callers : ApplyAgain(c)

TwiceSpec == TwiceInit /\ [][TwiceNext]_vars

\* C17: after UpdateNewest has been applied twice in a row with the same
\* item, the default-key entry is as it was after the first application.
C17_SecondApplicationChangesNothing ==
  \A c \in Callers :
    (newestCalls[c].round = 2 /\ newestCalls[c].pc = "returned")
      => DefaultEntry(items, GraphRef, studied) = afterFirst

\* C17 witness: the first application replaced the entry and the second has
\* returned.
C17_Witness ==
  \E c \in Callers :
    /\ newestCalls[c].round = 2 /\ newestCalls[c].pc = "returned"
    /\ afterFirst = newestCalls[c].item
    /\ afterFirst # newestPrior
    /\ newestPrior # NoFirstEntry

\* ------------------------------------------------------ persisted-query hit
PqHitInit ==
  /\ NoCore /\ NoPoll /\ NoHandler /\ NoKeys /\ NoNewestCalls /\ NoChunks /\ NoLayerCalls /\ NoConfig /\ NoSched /\ NoSelector /\ NoIntercepted /\ NoFetcherCalls /\ NoPrefixCalls /\ NoPinnedServe /\ NoDeleteCalls
  /\ pqHit \in [cachedID : ManifestIds, ifAfterId : ManifestIds]
  /\ pqResponse = NoPqResponse

\* handleCacheHit for PersistedQueriesManifestQuery, on a cached
\* PersistedQueriesResult with chunks.
PersistedQueriesHit(cachedID, ifAfterId) ==
  LET cached == DecodeID(cachedID)
      after  == DecodeID(ifAfterId)
  IN  IF cached.id = after.id /\ after.version >= cached.version
      THEN [typename |-> "Unchanged", chunks |-> <<>>]
      ELSE [typename |-> "PersistedQueriesResult", chunks |-> CachedChunks]

\* The handler answers the request from the cached manifest.
AnswerPqHit ==
  /\ pqResponse = NoPqResponse
  /\ pqResponse' = PersistedQueriesHit(pqHit.cachedID, pqHit.ifAfterId)
  /\ UNCHANGED <<pqHit, nonPqHitVars>>

\* The next request hits the cache.
NextPqHit ==
  /\ pqResponse # NoPqResponse
  /\ pqHit' \in [cachedID : ManifestIds, ifAfterId : ManifestIds]
  /\ pqResponse' = NoPqResponse
  /\ UNCHANGED nonPqHitVars

PqHitNext ==
  \/ AnswerPqHit
  \/ NextPqHit

PqHitSpec == PqHitInit /\ [][PqHitNext]_vars

\* The id reads as base:version, with a version that is an integer.
ParsesAsBaseVersion(id) == Len(id) = 2 /\ Atoi(id[2]).ok

\* C18: the answer to a persisted-query cache hit is Unchanged, with no
\* chunks, exactly when the ifAfterId parses as base:version, its base is
\* the base of the cached id and its version is at least the cached version;
\* in every other case, also when either id does not parse, it is the cached
\* PersistedQueriesResult with its chunks.
C18_UnchangedIffNotNewer ==
  pqResponse # NoPqResponse =>
    IF /\ ParsesAsBaseVersion(pqHit.ifAfterId)
       /\ ParsesAsBaseVersion(pqHit.cachedID)
       /\ pqHit.ifAfterId[1] = pqHit.cachedID[1]
       /\ Atoi(pqHit.ifAfterId[2]).n >= Atoi(pqHit.cachedID[2]).n
    THEN pqResponse = [typename |-> "Unchanged", chunks |-> <<>>]
    ELSE pqResponse = [typename |-> "PersistedQueriesResult", chunks |-> CachedChunks]

\* -------------------------------------------------- persisted-query chunks
\* The chunks of a manifest: each with its id and the number of its URLs.
Manifests ==
  UNION { [1..n -> [ID : ChunkIDs, urls : 1..MaxURLs]] : n \in 1..MaxChunks }

ChunkInit ==
  /\ NewMemoryCache /\ NoTieredCache /\ NoLifecycle
  /\ studied = SupergraphQuery
  /\ launchID = ""
  /\ cacheDuration \in CacheDurations
  /\ proc = [w \in Writers |-> IdleProc]
  /\ newest = NoNewest
  /\ proxied = NoProxied
  /\ NoPoll /\ NoHandler /\ NoKeys /\ NoNewestCalls /\ NoPqHit /\ NoLayerCalls /\ NoConfig /\ NoSched /\ NoSelector /\ NoIntercepted /\ NoFetcherCalls /\ NoPrefixCalls /\ NoPinnedServe /\ NoDeleteCalls
  /\ relayConfig \in [PublicURL : PublicURLs, TLS : BOOLEAN, pinned : BOOLEAN,
                       enabled : BOOLEAN]
  \* cachePinnedChunks does not read Cache.Enabled
  /\ relayConfig.pinned => relayConfig.enabled
  /\ chunkPc = NoChunkPc
  /\ rewritten = <<>>
  /\ chunkResp = NoChunkResp

\* const pathPrefix = "/persisted-queries/", as a segment of a path.
pathPrefix == "persisted-queries"

\* URL.JoinPath: the segment is added to the path.
JoinPath(u, segment) == [u EXCEPT !.path = Append(@, segment)]

\* The bytes at the index-th remote URL of a chunk, and the JSON of a chunk
\* of a pinned manifest.
RemoteBytes(id, index) == <<"bytes", id, index>>

ChunkJSON(id, index) == <<"json", id, index>>

\* zlib: the compressed form of the bytes, and reading it back.
Compress(bytes) == <<"zlib", bytes>>

Decompress(content) ==
  IF Len(content) = 2 /\ content[1] = "zlib"
  THEN [ok |-> TRUE, bytes |-> content[2]]
  ELSE [ok |-> FALSE, bytes |-> <<>>]

\* Mutant of MakePersistedQueryCacheKey: the index left out of the key.
MakePersistedQueryCacheKeyNoIndex(id, index) == <<"pq", id>>

MakePersistedQueryCacheKey(id, index) == <<"pq", id, index>>

\* A URL of the relay for a chunk: base + id + "?i=" + index.
ChunkURL(base, id, index) ==
  [scheme |-> base.scheme, host |-> base.host, path |-> base.path,
   id |-> id, i |-> index]

\* The cacher has returned to its caller, which calls it once per manifest.
Returned == [NoChunkPc EXCEPT !.mode = "returned"]

\* CachePersistedQueryChunkData is called with the chunks of a manifest; with
\* the cache disabled it returns them as they are.
CachePersistedQueryChunkData ==
  /\ chunkPc.mode = "idle"
  /\ ~relayConfig.pinned
  /\ \E chunks \in Manifests :
       chunkPc' = IF ~relayConfig.enabled
                  THEN Returned
                  ELSE [mode |-> "live", chunks |-> chunks, c |-> 1, u |-> 1,
                        parsedUrl |-> relayConfig.PublicURL, newUrls |-> <<>>,
                        out |-> <<>>]
  /\ UNCHANGED <<memVars, relayConfig, rewritten, chunkResp, nonChunkVars>>

\* The end of one turn of the loop over the URLs of a chunk: the next URL,
\* the next chunk, or the return of the chunks with their new URLs.
EndOfTurn(parsedUrl, newUrls, lastOfChunk) ==
  LET chunk == chunkPc.chunks[chunkPc.c]
      out   == Append(chunkPc.out, [ID |-> chunk.ID, URLs |-> newUrls])
  IN  IF ~lastOfChunk
      THEN /\ chunkPc' = [chunkPc EXCEPT !.u = @ + 1, !.parsedUrl = parsedUrl,
                                         !.newUrls = newUrls]
           /\ UNCHANGED rewritten
      ELSE IF chunkPc.c < Len(chunkPc.chunks)
      THEN /\ chunkPc' = [chunkPc EXCEPT !.c = @ + 1, !.u = 1, !.parsedUrl = parsedUrl,
                                         !.newUrls = <<>>, !.out = out]
           /\ UNCHANGED rewritten
      ELSE /\ chunkPc' = Returned
           /\ rewritten' = out

\* One turn of the inner loop of CachePersistedQueryChunkData: the URL is
\* fetched, its body compressed and stored, and the URL of the relay for it
\* is built from parsedUrl, which is joined with pathPrefix in every turn.
CacheChunkURL ==
  /\ chunkPc.mode = "live"
  /\ LET chunk    == chunkPc.chunks[chunkPc.c]
         index    == chunkPc.u - 1
         cacheKey == MakePersistedQueryCacheKey(chunk.ID, Itoa(index))
     IN  \E fetched \in BOOLEAN :
           IF ~fetched
           THEN /\ chunkPc' = Returned
                /\ UNCHANGED <<items, currentItems, rewritten>>
           ELSE /\ \E o \in MemoryCacheSet(items, currentItems, maxItems, now, cacheKey,
                                           Compress(RemoteBytes(chunk.ID, index)),
                                           cacheDuration) :
                       /\ items' = o.items
                       /\ currentItems' = o.currentItems
                /\ LET protocol  == IF relayConfig.TLS THEN "https"
                                    ELSE chunkPc.parsedUrl.scheme
                       parsedUrl == JoinPath([chunkPc.parsedUrl EXCEPT !.scheme = protocol],
                                             pathPrefix)
                   IN  EndOfTurn(parsedUrl,
                                 Append(chunkPc.newUrls,
                                        ChunkURL(parsedUrl, chunk.ID, Itoa(index))),
                                 chunkPc.u = chunk.urls)
  /\ UNCHANGED <<maxItems, now, memOp, memHist, relayConfig, chunkResp, nonChunkVars>>

\* pinning.cachePinnedChunks is called with the chunks of the pinned
\* manifest: the public URL is joined with "/persisted-queries" once.
cachePinnedChunks ==
  /\ chunkPc.mode = "idle"
  /\ relayConfig.pinned
  /\ \E chunks \in Manifests :
       chunkPc' = [mode |-> "pinned", chunks |-> chunks, c |-> 1, u |-> 1,
                   parsedUrl |-> JoinPath(relayConfig.PublicURL, pathPrefix),
                   newUrls |-> <<>>, out |-> <<>>]
  /\ UNCHANGED <<memVars, relayConfig, rewritten, chunkResp, nonChunkVars>>

\* One turn of the loop of cachePinnedChunks: the chunk's JSON is compressed
\* and stored with duration -1 under the chunk's index in the manifest, and
\* the chunk gets the one URL of the relay for it.
CachePinnedChunk ==
  /\ chunkPc.mode = "pinned"
  /\ LET chunk    == chunkPc.chunks[chunkPc.c]
         index    == chunkPc.c - 1
         cacheKey == MakePersistedQueryCacheKey(chunk.ID, Itoa(index))
     IN  /\ \E o \in MemoryCacheSet(items, currentItems, maxItems, now, cacheKey,
                                    Compress(ChunkJSON(chunk.ID, index)), -1) :
              /\ items' = o.items
              /\ currentItems' = o.currentItems
         /\ EndOfTurn(chunkPc.parsedUrl,
                      <<ChunkURL(chunkPc.parsedUrl, chunk.ID, Itoa(index))>>, TRUE)
  /\ UNCHANGED <<maxItems, now, memOp, memHist, relayConfig, chunkResp, nonChunkVars>>

\* The values of ?i= a router may send: none, or an index.
IndexTexts ==
  {""} \cup {Itoa(n) : n \in 0..((IF MaxChunks > MaxURLs THEN MaxChunks ELSE MaxURLs) - 1)}

\* PersistedQueryHandler: GET /persisted-queries/<id>?i=<index>.
PersistedQueryHandler ==
  /\ \E id \in ChunkIDs \cup {""}, index \in IndexTexts :
       LET entry == MemoryCacheGet(items, now, MakePersistedQueryCacheKey(id, index))
           answer(found, status, body) ==
             [id |-> id, index |-> index, found |-> found, status |-> status, body |-> body]
       IN  chunkResp' =
             IF id = "" \/ index = "" THEN answer(FALSE, 400, <<>>)
             ELSE IF ~entry.found THEN answer(FALSE, 404, <<>>)
             ELSE IF ~Decompress(entry.content).ok THEN answer(TRUE, 500, <<>>)
             ELSE answer(TRUE, 200, Decompress(entry.content).bytes)
  /\ UNCHANGED <<memVars, relayConfig, chunkPc, rewritten, nonChunkVars>>

ChunkNext ==
  \/ CachePersistedQueryChunkData
  \/ CacheChunkURL
  \/ cachePinnedChunks
  \/ CachePinnedChunk
  \/ PersistedQueryHandler
  \/ Tick

ChunkSpec == ChunkInit /\ [][ChunkNext]_vars

\* C19: a GET for a chunk id and index whose entry, stored by the chunk
\* cacher, is in the cache, is answered with the bytes fetched from that
\* remote URL of the chunk.
C19_ChunkRoundTrip ==
  (~relayConfig.pinned /\ chunkResp.found)
    => (/\ chunkResp.status = 200
        /\ chunkResp.body = RemoteBytes(chunkResp.id, IndexOf(chunkResp.index)))

\* C19 witness: the bytes of the second URL of a chunk have been served.
C19_Witness ==
  /\ ~relayConfig.pinned
  /\ chunkResp.found /\ chunkResp.status = 200
  /\ chunkResp.index = Itoa(1)

\* The URL the relay is to advertise for a chunk and an index.
ExpectedURL(id, index) ==
  [scheme |-> IF relayConfig.TLS THEN "https" ELSE relayConfig.PublicURL.scheme,
   host   |-> relayConfig.PublicURL.host,
   path   |-> Append(relayConfig.PublicURL.path, pathPrefix),
   id     |-> id,
   i      |-> Itoa(index)]

\* C20: every URL the chunk cachers put into a manifest, for every chunk and
\* every index, is <publicURL>/persisted-queries/<chunkID>?i=<index>, with
\* the path prefix of the public URL and its scheme (https under TLS).
C20_RewrittenURLs ==
  \A c \in 1..Len(rewritten) :
    \A u \in 1..Len(rewritten[c].URLs) :
      rewritten[c].URLs[u]
        = ExpectedURL(rewritten[c].ID, IF relayConfig.pinned THEN c - 1 ELSE u - 1)

\* ------------------------------------------------- Set, then Get, on a layer
nonLayerVars ==
  <<reloadVars, relayVars, pollVars, handlerVars, keyVars, newestVars, pqHitVars,
    chunkVars, configVars, schedVars, selectorVars, interceptVars, fetcherVars, prefixVars, pinnedVars, deleteVars>>

\* The clock of this part ticks twice a second, so that the time between two
\* calls made one right after the other, which is less than a second, can
\* be told from no time at all.
TicksPerSecond == 2

\* time.Duration(duration) * time.Second, in ticks; -1 stays the mark of
\* "never expires".
Seconds(duration) == IF duration = -1 THEN -1 ELSE duration * TicksPerSecond

Layers == {"Memory", "Filesystem", "Redis"}

LayerInit ==
  /\ NewMemoryCache /\ NoTieredCache /\ NoLifecycle /\ NoRelay
  /\ NoPoll /\ NoHandler /\ NoKeys /\ NoNewestCalls /\ NoPqHit /\ NoChunks /\ NoConfig /\ NoSched /\ NoSelector /\ NoIntercepted /\ NoFetcherCalls /\ NoPrefixCalls /\ NoPinnedServe /\ NoDeleteCalls
  /\ \E layer \in Layers : layerCall = [NoLayerCall EXCEPT !.layer = layer]

\* Set(key, content, duration) on the layer under study.  The memory cache always returns
\* nil; writing the file or reaching redis can fail, and then nothing is
\* stored.
LayerSet ==
  /\ layerCall.pc # "set"
  /\ \E key \in TierKeys, content \in Contents, duration \in Durations,
        failed \in BOOLEAN :
      LET layer == layerCall.layer IN
       /\ failed => layer # "Memory"
       /\ layerCall' = [pc |-> IF failed THEN "failed" ELSE "set", layer |-> layer,
                        key |-> key, content |-> content, duration |-> duration,
                        elapsed |-> FALSE, got |-> NotFound]
       /\ CASE failed -> UNCHANGED <<items, currentItems, files, redisKeys>>
            [] ~failed /\ layer = "Memory" ->
                 /\ \E o \in MemoryCacheSet(items, currentItems, maxItems, now, key, content,
                                            Seconds(duration)) :
                      /\ items' = o.items
                      /\ currentItems' = o.currentItems
                 /\ UNCHANGED <<files, redisKeys>>
            [] ~failed /\ layer = "Filesystem" ->
                 /\ files' = FilesystemCacheSet(files, key, content)
                 /\ UNCHANGED <<items, currentItems, redisKeys>>
            [] ~failed /\ layer = "Redis" ->
                 /\ redisKeys' = RedisCacheSet(redisKeys, now, key, content, Seconds(duration))
                 /\ UNCHANGED <<items, currentItems, files>>
  /\ UNCHANGED <<maxItems, now, memOp, memHist, caches, tierDuration, tierOp, nonLayerVars>>

\* Between the return of Set and the clock reading of the Get that follows
\* at once, less than a second goes by: no tick, or one.
Elapse ==
  /\ layerCall.pc = "set"
  /\ ~layerCall.elapsed
  /\ now < MaxTime
  /\ now' = now + 1
  /\ layerCall' = [layerCall EXCEPT !.elapsed = TRUE]
  /\ UNCHANGED <<items, currentItems, maxItems, memOp, memHist, tierVars, nonLayerVars>>

\* Get(key) on the layer, for the key just set.
LayerGetAfterSet ==
  /\ layerCall.pc = "set"
  /\ layerCall' = [layerCall EXCEPT !.pc = "got",
                                    !.got = LayerGet(layerCall.layer, layerCall.key)]
  /\ UNCHANGED <<memVars, tierVars, nonLayerVars>>

\* Time passes between one Set/Get pair and the next.
LayerTick ==
  /\ layerCall.pc # "set"
  /\ Tick
  /\ UNCHANGED layerVars

LayerNext ==
  \/ LayerSet
  \/ Elapse
  \/ LayerGetAfterSet
  \/ LayerTick

LayerSpec == LayerInit /\ [][LayerNext]_vars

\* C21: on every layer, the Get that follows at once a successful
\* Set(k, v, d) with d >= 0 yields (v, true).
C21_GetAfterSet ==
  (layerCall.pc = "got" /\ layerCall.duration >= 0)
    => layerCall.got = [found |-> TRUE, content |-> layerCall.content]

\* The same for durations of a second or more.
C21_GetAfterSetWholeSeconds ==
  (layerCall.pc = "got" /\ layerCall.duration >= 1)
    => layerCall.got = [found |-> TRUE, content |-> layerCall.content]

\* ------------------------------------------ reload with a new configuration
nonConfigVars ==
  <<tierVars, relayVars, pollVars, handlerVars, keyVars, newestVars, pqHitVars,
    chunkVars, layerVars, schedVars, selectorVars, interceptVars, fetcherVars, prefixVars, pinnedVars, deleteVars>>

\* The cache sections a configuration file can hold: 0 stands for a field the
\* file leaves out.
ConfigFiles == [MaxSize : -1..MaxCapacity, Duration : {-2, 0, 1}]

\* config.MergeWithDefaultConfig, for the cache section.
MergeWithDefaultConfig(loadedConfig) ==
  [MaxSize  |-> IF loadedConfig.MaxSize = 0 THEN DefaultCacheConfig.MaxSize
                ELSE loadedConfig.MaxSize,
   Duration |-> IF loadedConfig.Duration = 0 THEN DefaultCacheConfig.Duration
                ELSE loadedConfig.Duration]

\* Config.Validate, for the cache section: nil or an error.
Validate(c) ==
  IF c.Duration <= 0 /\ c.Duration # -1 THEN "cache duration must be positive"
  ELSE IF c.MaxSize <= 0 THEN "cache maxSize must be positive"
  ELSE NoError

\* main, up to the start of the reload goroutine: the configuration is
\* loaded, merged and validated (os.Exit(1) if that fails), the memory cache
\* is made with its maxSize, and startup is called.
ConfigInit ==
  /\ \E loadedConfig \in ConfigFiles :
       /\ mergedConfig = MergeWithDefaultConfig(loadedConfig)
       /\ Validate(mergedConfig) = NoError
  /\ items = <<>>
  /\ currentItems = 0
  /\ maxItems = mergedConfig.MaxSize
  /\ now = 1
  /\ memOp = [op |-> "New"]
  /\ memHist = [pinned |-> FALSE]
  /\ NoTieredCache /\ LifecycleInit /\ NoRelay
  /\ NoPoll /\ NoHandler /\ NoKeys /\ NoNewestCalls /\ NoPqHit /\ NoChunks /\ NoLayerCalls /\ NoSched /\ NoSelector /\ NoIntercepted /\ NoFetcherCalls /\ NoPrefixCalls /\ NoPinnedServe /\ NoDeleteCalls

\* The reload goroutine after stopPolling <- true: LoadConfig, then startup
\* with the merged configuration and the cache made at the start of main.
\* The file read has a new cache section; its polling section is the one it
\* had at the start.
ReloadStartupMerged ==
  /\ reloadPc = "load"
  /\ \E loadedConfig \in ConfigFiles :
       /\ mergedConfig' = MergeWithDefaultConfig(loadedConfig)
       /\ pollers' = StartPolling(userConfig)
  /\ UNCHANGED userConfig
  /\ server' = "up"
  /\ reloadPc' = "wait"
  /\ UNCHANGED <<update, reloads, stopPolling, memVars, nonConfigVars>>

\* A handler or a fetcher caches an artifact, with the duration of the
\* configuration it was started with.
ConfigInsert ==
  /\ Alive
  /\ \E key \in TierKeys :
       \E out \in MemoryCacheSet(items, currentItems, maxItems, now, key, "content1",
                                 mergedConfig.Duration) :
         /\ items' = out.items
         /\ currentItems' = out.currentItems
         /\ memOp' = [op |-> "Set", key |-> key, duration |-> mergedConfig.Duration,
                      evicted |-> out.evicted,
                      full |-> CacheFull(currentItems, maxItems),
                      before |-> currentItems, configured |-> mergedConfig.MaxSize]
         /\ memHist' = [memHist EXCEPT !.pinned = @ \/ mergedConfig.Duration = -1]
  /\ UNCHANGED <<maxItems, now, reloadVars, mergedConfig, nonConfigVars>>

ConfigNext ==
  \/ Sighup \/ ReloadShutdown \/ ReloadSend \/ ReloadStartupMerged \/ ReloadFails
  \/ Terminate
  \/ ConfigInsert
  \/ \E p \in 1..Len(pollers) : InitialPassDone(p)
  \/ \E p \in 1..Len(pollers) : IntervalTick(p)
  \/ \E p \in 1..Len(pollers) : PassDone(p)
  \/ \E p \in 1..Len(pollers) : CronFire(p)
  \/ \E p \in 1..Len(pollers) : CronJobDone(p)
  \/ \E p \in 1..Len(pollers) : PollerReturn(p)

ConfigSpec == ConfigInit /\ [][ConfigNext]_vars

\* C22: the configuration in service has passed validation, after a reload
\* as after the start: one that fails validation never becomes active.
C22_ActiveConfigIsValid == Validate(mergedConfig) = NoError

\* C23: the memory cache enforces the capacity of the configuration in
\* service: an insert made while the cache holds fewer entries than the
\* configured cache.maxSize, raised by a reload or not, evicts nothing.
C23_NewCapacityEnforced ==
  (memOp.op = "Set" /\ "configured" \in DOMAIN memOp /\ memOp.before < memOp.configured)
    => memOp.evicted = NoKey

\* ------------------------------------------- StartPolling and its passes
nonSchedVars == <<coreVars, handlerVars, keyVars, newestVars, pqHitVars, chunkVars,
                  layerVars, configVars, selectorVars, interceptVars, fetcherVars, prefixVars, pinnedVars, deleteVars>>

\* startup has just made `go polling.StartPolling(...)`; no graph pins
\* anything (pollForUpdates does not look at the pins).
SchedInit ==
  /\ NoCore
  /\ \E polling \in PollingOptions :
       pollConfig = [pins |-> [g \in 1..Len(Supergraphs) |->
                                 [k \in {PollKinds[i] : i \in 1..Len(PollKinds)} |-> FALSE]],
                     polling |-> polling]
  /\ pollPc = NoPollPc
  /\ liveFetches = {}
  /\ polledWrites = {}
  /\ pass = NoPass
  /\ NoHandler /\ NoKeys /\ NoNewestCalls /\ NoPqHit /\ NoChunks /\ NoLayerCalls /\ NoConfig /\ NoSelector /\ NoIntercepted /\ NoFetcherCalls /\ NoPrefixCalls /\ NoPinnedServe /\ NoDeleteCalls
  /\ \E enabled \in BOOLEAN, mode \in PollingModes :
       sched = [pc |-> "start", enabled |-> enabled, mode |-> mode,
                fired |-> 0, passes |-> 0]

\* StartPolling from its entry: it returns if polling is disabled; with an
\* interval it makes the ticker and goes to range over ticker.C; with cron
\* expressions it adds the jobs, starts the schedule and returns.
StartPollingEntry ==
  /\ sched.pc = "start"
  /\ sched' = [sched EXCEPT !.pc = IF ~sched.enabled THEN "returned"
                                   ELSE IF sched.mode = "interval" THEN "ticker"
                                   ELSE "cron"]
  /\ UNCHANGED <<pollVars, nonSchedVars>>

\* The ticker delivers a tick to `for range ticker.C`, or the cron schedule
\* runs the job: pollForUpdates is called.  The loop takes the next tick
\* when the pass is over.
Fire ==
  /\ sched.pc \in {"ticker", "cron"}
  /\ pollPc = NoPollPc
  /\ sched.fired < MaxFirings
  /\ sched' = [sched EXCEPT !.fired = @ + 1, !.passes = @ + 1]
  /\ pollPc' = EnterGraph(1)
  /\ pass' = NoPass
  /\ UNCHANGED <<pollConfig, liveFetches, polledWrites, nonSchedVars>>

SchedNext ==
  \/ StartPollingEntry
  \/ Fire
  \/ PollKind

SchedSpec == SchedInit /\ [][SchedNext]_vars

\* C24: a scheduler started with polling enabled has begun a pass by the
\* time the ticker or the cron schedule fires for the first time.
C24_InitialPassBeforeFirstFiring ==
  [][(sched.enabled /\ sched.fired = 0 /\ sched'.fired = 1) => sched.passes >= 1]_vars

\* --------------------------------------------- a failure during a pass
\* The pass stands in the loop body of graph g.
PollingGraph(g) == pollPc # NoPollPc /\ pollPc.graph = g

\* C25: a pass that stands at a graph, whether the fetches for that graph
\* fail or not, goes on to every later graph; every pass comes to its end
\* with the process running, and passes keep being made afterwards.
C25_FailureDoesNotStopPolling ==
  /\ \A g \in 1..(Len(Supergraphs) - 1) : PollingGraph(g) ~> PollingGraph(g + 1)
  /\ []<>(pollPc = NoPollPc)
  /\ (pollConfig.polling.RetryCount > 0) => []<>(pollPc # NoPollPc)

\* C25 witness: a fetch for the first graph has failed (it was issued and
\* nothing was written for it) and the pass stands at the second graph.
C25_Witness ==
  /\ PollingGraph(2)
  /\ \E i \in 1..Len(PollKinds) :
       <<1, PollKinds[i]>> \in liveFetches \ polledWrites

\* ------------------------------------------------- RoundRobinSelector.Next
nonSelectorVars == <<coreVars, pollVars, handlerVars, keyVars, newestVars, pqHitVars,
                     chunkVars, layerVars, configVars, schedVars, interceptVars, fetcherVars, prefixVars, pinnedVars, deleteVars>>

UplinkURLs == <<"uplink1", "uplink2", "uplink3">>

\* uplink.NewRoundRobinSelector(urls)
NewRoundRobinSelector(urls) == [urls |-> urls, mu |-> 0, nextIndex |-> 0]

\* startup makes the selector of the relay handler from Uplink.URLs; the
\* list is empty only for a selector made outside a validated configuration.
SelectorInit ==
  /\ NoCore /\ NoPoll /\ NoHandler /\ NoKeys /\ NoNewestCalls /\ NoPqHit /\ NoChunks /\ NoIntercepted /\ NoFetcherCalls /\ NoPrefixCalls /\ NoPinnedServe /\ NoDeleteCalls
  /\ NoLayerCalls /\ NoConfig /\ NoSched
  /\ \E n \in 0..MaxUplinkURLs : rr = NewRoundRobinSelector(SubSeq(UplinkURLs, 1, n))
  /\ rrCalls = [c \in Callers |-> NoRrCall]
  /\ returned = <<>>
  /\ fetcherURLs = <<>>

\* The calls of Next made so far, returned or not.
CallsMade == Len(returned) + Cardinality({c \in Callers : rrCalls[c].pc # "idle"})

\* Mutant of MutexFree: Lock goes through whoever holds the mutex.
MutexFreeAlways == TRUE

\* rr.mu.Lock() goes through when no one holds the mutex.
MutexFree == rr.mu = 0

\* Mutant of NextIndex: the index is not advanced.
NextIndexStuck(nextIndex, n) == nextIndex

\* (rr.nextIndex + 1) % len(rr.urls)
NextIndex(nextIndex, n) == (nextIndex + 1) % n

\* Next: rr.mu.Lock()
NextLock(c) ==
  /\ rrCalls[c].pc = "idle"
  /\ CallsMade < MaxCalls
  /\ MutexFree
  /\ rr' = [rr EXCEPT !.mu = c]
  /\ rrCalls' = [rrCalls EXCEPT ![c].pc = "locked"]
  /\ UNCHANGED <<returned, fetcherURLs, nonSelectorVars>>

\* if len(rr.urls) == 0 { return "" }; url := rr.urls[rr.nextIndex]
NextRead(c) ==
  /\ rrCalls[c].pc = "locked"
  /\ rrCalls' = [rrCalls EXCEPT ![c] =
                   IF Len(rr.urls) = 0 THEN [pc |-> "return", url |-> ""]
                   ELSE [pc |-> "advance", url |-> rr.urls[rr.nextIndex + 1]]]
  /\ UNCHANGED <<rr, returned, fetcherURLs, nonSelectorVars>>

\* rr.nextIndex = (rr.nextIndex + 1) % len(rr.urls)
NextAdvance(c) ==
  /\ rrCalls[c].pc = "advance"
  /\ rr' = [rr EXCEPT !.nextIndex = NextIndex(rr.nextIndex, Len(rr.urls))]
  /\ rrCalls' = [rrCalls EXCEPT ![c].pc = "return"]
  /\ UNCHANGED <<returned, fetcherURLs, nonSelectorVars>>

\* return url, with the deferred rr.mu.Unlock()
NextReturn(c) ==
  /\ rrCalls[c].pc = "return"
  /\ rr' = [rr EXCEPT !.mu = 0]
  /\ returned' = Append(returned, rrCalls[c].url)
  /\ rrCalls' = [rrCalls EXCEPT ![c] = NoRrCall]
  /\ UNCHANGED <<fetcherURLs, nonSelectorVars>>

\* util.UplinkRequest, and the fetch functions of polling alike: a selector
\* is made for the request and Next is called on it once.
UplinkRequest ==
  /\ Len(fetcherURLs) < MaxCalls
  /\ LET selector == NewRoundRobinSelector(rr.urls)
     IN  fetcherURLs' = Append(fetcherURLs, IF Len(selector.urls) = 0 THEN ""
                                            ELSE selector.urls[selector.nextIndex + 1])
  /\ UNCHANGED <<rr, rrCalls, returned, nonSelectorVars>>

SelectorNext ==
  \/ \E c \in Callers : NextLock(c)
  \/ \E c \in Callers : NextRead(c)
  \/ \E c \in Callers : NextAdvance(c)
  \/ \E c \in Callers : NextReturn(c)
  \/ UplinkRequest

SelectorSpec == SelectorInit /\ [][SelectorNext]_vars

\* The URL round-robin order gives the k-th request over the list urls.
RoundRobin(urls, k) == IF Len(urls) = 0 THEN "" ELSE urls[((k - 1) % Len(urls)) + 1]

\* C26: the k-th call of Next returns urls[(k-1) mod n], and "" when the
\* list is empty.
C26_KthCallReturnsKthURL ==
  \A k \in 1..Len(returned) : returned[k] = RoundRobin(rr.urls, k)

\* C26 witness: the selector has gone round once and returned the first URL
\* again.
C26_Witness ==
  /\ Len(rr.urls) > 1
  /\ Len(returned) = Len(rr.urls) + 1
  /\ returned[Len(returned)] = rr.urls[1]

\* How many of the calls returned the URL.
Times(url) == Cardinality({k \in 1..Len(returned) : returned[k] = url})

NoCallUnderWay == \A c \in Callers : rrCalls[c].pc = "idle"

\* C27: with callers running Next concurrently, once m*n calls have been
\* made and have returned, each of the n URLs has been returned m times.
C27_EachURLReturnedEqually ==
  (Len(rr.urls) > 0 /\ NoCallUnderWay /\ Len(returned) % Len(rr.urls) = 0)
    => \A u \in 1..Len(rr.urls) : Times(rr.urls[u]) * Len(rr.urls) = Len(returned)

\* C27 witness: two rounds of calls have been made and have all returned.
C27_Witness ==
  /\ Len(rr.urls) > 1 /\ NoCallUnderWay
  /\ Len(returned) = 2 * Len(rr.urls)

\* C28: the requests to uplink go to the configured URLs in round-robin
\* order, those proxied for routers (through the handler's selector) and
\* those of the fetchers alike.
C28_OutboundRoundRobin ==
  /\ \A k \in 1..Len(returned) : returned[k] = RoundRobin(rr.urls, k)
  /\ \A k \in 1..Len(fetcherURLs) : fetcherURLs[k] = RoundRobin(rr.urls, k)

\* ------------------------------------------------- eviction at capacity
\* What a Set that evicts is to do: with no expiring entry stored, nothing
\* is evicted and the new entry is inserted; else exactly one entry goes,
\* one of earliest expiration among the expiring ones.
EvictsEarliest ==
  IF Unpinned(items) = {}
  THEN /\ memOp'.evicted = NoKey
       /\ DOMAIN items' = DOMAIN items \cup {memOp'.key}
  ELSE /\ memOp'.evicted \in Unpinned(items)
       /\ \A o \in Unpinned(items) :
            items[memOp'.evicted].Expiration <= items[o].Expiration
       /\ DOMAIN items' = (DOMAIN items \ {memOp'.evicted}) \cup {memOp'.key}

\* C29: a Set on a memory cache that holds maxItems entries or more evicts
\* exactly one entry, of earliest expiration among those that are not
\* never-expiring; if every stored entry is never-expiring it evicts
\* nothing and still inserts the new entry.
C29_SetAtCapacityEvictsEarliest ==
  [][(memOp'.op = "Set" /\ Cardinality(DOMAIN items) >= maxItems) => EvictsEarliest]_vars

\* The same, with "at capacity" read as the test Set makes on its own count
\* of the entries.
C29_SetWhenFullEvictsEarliest ==
  [][(memOp'.op = "Set" /\ CacheFull(currentItems, maxItems)) => EvictsEarliest]_vars

\* ------------------------------------------------- UpdateNewest, one call
\* The passed item has a Content, and the default key holds no entry or one
\* that is strictly older and of another hash.
StrictlyNewer(passedItem) ==
  LET stored == MemoryCacheGet(items, now, DefaultCacheKey(GraphRef, studied))
  IN  /\ passedItem.Content # Unchanged
      /\ stored.found =>
           /\ stored.content.LastModified < passedItem.LastModified
           /\ stored.content.Hash # passedItem.Hash

\* C30: UpdateNewest replaces the default-key entry with the passed item,
\* stored as never-expiring, if and only if the item has a non-empty
\* Content, its LastModified is strictly later than that of the stored
\* default entry (or there is none) and its Hash differs; otherwise the
\* cache is left as it is.
C30_ReplacesIffStrictlyNewer ==
  [][\A c \in Callers :
       /\ (newestCalls[c].pc = "called" /\ newestCalls'[c].pc # "called") =>
            /\ newestCalls'[c].pc = "set" <=> StrictlyNewer(newestCalls[c].item)
            /\ items' = items
       /\ (newestCalls[c].pc = "set" /\ newestCalls'[c].pc # "set") =>
            /\ newestCalls'[c].pc = "returned" /\ newestCalls'[c].wrote
            /\ DefaultCacheKey(GraphRef, studied) \in DOMAIN items'
            /\ items'[DefaultCacheKey(GraphRef, studied)] =
                 [Content |-> newestCalls[c].item, Expiration |-> IndefiniteTimestamp]]_vars

\* C30 witness: the call found an entry older than its item and of another
\* hash, and has replaced it with the item, never to expire.
C30_Witness ==
  \E c \in Callers :
    /\ newestCalls[c].round = 1 /\ newestCalls[c].pc = "returned" /\ newestCalls[c].wrote
    /\ newestPrior # NoFirstEntry
    /\ newestPrior.LastModified < newestCalls[c].item.LastModified
    /\ newestPrior.Hash # newestCalls[c].item.Hash
    /\ items[DefaultCacheKey(GraphRef, studied)] =
         [Content |-> newestCalls[c].item, Expiration |-> IndefiniteTimestamp]

\* ------------------------------------- modifyProxiedResponse and its caching
nonInterceptVars == <<tierVars, reloadVars, relayVars, pollVars, handlerVars, keyVars,
                      newestVars, pqHitVars, chunkVars, layerVars, configVars, schedVars,
                      selectorVars, fetcherVars, prefixVars, pinnedVars, deleteVars>>

\* The operations the interceptor caches.
CachedOperations == Operations \cup {PersistedQueriesQuery}

\* The relay proxies the requests of one operation, with config.Cache.Enabled
\* and config.Cache.Duration as the configuration has them.
InterceptInit ==
  /\ NewMemoryCache /\ NoTieredCache /\ NoLifecycle
  /\ studied \in CachedOperations
  /\ launchID = ""
  /\ cacheDuration \in CacheDurations
  /\ proc = [w \in Writers |-> IdleProc]
  /\ newest = NoNewest
  /\ proxied = NoProxied
  /\ NoPoll /\ NoHandler /\ NoKeys /\ NoNewestCalls /\ NoPqHit /\ NoChunks /\ NoLayerCalls /\ NoConfig /\ NoSched /\ NoSelector /\ NoFetcherCalls /\ NoPrefixCalls /\ NoPinnedServe /\ NoDeleteCalls
  /\ \E enabled \in BOOLEAN : intercepted = [NoIntercept EXCEPT !.enabled = enabled]

\* systemCache.Set on the cache m = [items, currentItems]: the caches it may
\* leave.
SetOutcomes(m, key, item, duration) ==
  { [items |-> o.items, currentItems |-> o.currentItems] :
      o \in MemoryCacheSet(m.items, m.currentItems, maxItems, now, key, item, duration) }

\* cache.UpdateNewest on the cache m.
UpdateNewestOutcomes(m, graphRef, operationName, passedItem) ==
  IF UpdateNewestReplaces(m.items, now, graphRef, operationName, passedItem)
  THEN SetOutcomes(m, DefaultCacheKey(graphRef, operationName), passedItem, -1)
  ELSE {m}

\* Whether the caching of an answer calls UpdateNewest: CacheSchema and
\* CacheLicense by their tests on Content, the persisted-query branch always.
InvokesUpdateNewest(operationName, item) ==
  IF operationName = PersistedQueriesQuery THEN TRUE
  ELSE CallsUpdateNewest(operationName, item)

\* The caching of an answer: CacheSchema and CacheLicense call UpdateNewest
\* and then Set the request's key; the persisted-query branch Sets the key
\* and then calls UpdateNewest.
CachingOutcomes(m, operationName, ifAfterId, item, duration) ==
  LET key == ArtifactCacheKey(GraphRef, operationName, ifAfterId)
  IN  IF operationName = PersistedQueriesQuery
      THEN UNION { UpdateNewestOutcomes(m1, GraphRef, operationName, item) :
                     m1 \in SetOutcomes(m, key, item, duration) }
      ELSE UNION { SetOutcomes(m1, key, item, duration) :
                     m1 \in IF InvokesUpdateNewest(operationName, item)
                            THEN UpdateNewestOutcomes(m, GraphRef, operationName, item)
                            ELSE {m} }

\* modifyProxiedResponse on an answer of uplink: a schema or a license
\* whose id does not parse as a time is not cached, nor is anything with
\* the cache disabled; a persisted-query manifest is cached as the body
\* re-marshalled, which is never empty.
ModifyProxiedResponse ==
  /\ \E operationName \in {studied},
        content \in Artifacts \cup {Unchanged},
        idParses \in BOOLEAN,
        ifAfterId \in {NoIfAfterId, <<1>>},
        duration \in {cacheDuration} :
       LET item   == CacheItem(content, now)
           cached == /\ intercepted.enabled
                     /\ IF operationName = PersistedQueriesQuery
                        THEN content # Unchanged
                        ELSE idParses
       IN  /\ operationName = PersistedQueriesQuery => (idParses /\ content # Unchanged)
           /\ intercepted' = [intercepted EXCEPT
                !.operationName = operationName,
                !.content = content,
                !.cached = cached,
                !.updateNewest = cached /\ InvokesUpdateNewest(operationName, item)]
           /\ IF cached
              THEN \E o \in CachingOutcomes([items |-> items, currentItems |-> currentItems],
                                            operationName, ifAfterId, item, duration) :
                     /\ items' = o.items
                     /\ currentItems' = o.currentItems
              ELSE UNCHANGED <<items, currentItems>>
  /\ UNCHANGED <<maxItems, now, memOp, memHist, nonInterceptVars>>

\* Time passes between two answers.
InterceptTick ==
  /\ now < MaxTime
  /\ now' = now + 1
  /\ UNCHANGED <<items, currentItems, maxItems, memOp, memHist, intercepted, nonInterceptVars>>

InterceptNext ==
  \/ ModifyProxiedResponse
  \/ InterceptTick

InterceptSpec == InterceptInit /\ [][InterceptNext]_vars

\* C31: whenever the interceptor has cached an answer with non-empty
\* content, be it a schema, a license or a persisted-query manifest, it has
\* called UpdateNewest for the graph's default key with the new entry.
C31_CachingCallsUpdateNewest ==
  (intercepted.cached /\ intercepted.content # Unchanged) => intercepted.updateNewest

\* ---------------------------------------------- the fetchers and the pins
nonFetcherVars == <<coreVars, pollVars, handlerVars, keyVars, newestVars, pqHitVars,
                    chunkVars, layerVars, configVars, schedVars, selectorVars,
                    interceptVars, prefixVars, pinnedVars, deleteVars>>

\* SupergraphConfig.LaunchID, OfflineLicense and PersistedQueryVersion of
\* the graph: each empty or set.
SupergraphConfigs ==
  [LaunchID : {"", "launch1", "launch2"},
   OfflineLicense : {"", "license1", "license2"},
   PersistedQueryVersion : {"", "version1", "version2"}]

FetcherInit ==
  /\ NoCore
  /\ NoPoll /\ NoHandler /\ NoKeys /\ NoNewestCalls /\ NoPqHit /\ NoChunks /\ NoLayerCalls /\ NoConfig /\ NoSched /\ NoSelector /\ NoIntercepted /\ NoPrefixCalls /\ NoPinnedServe /\ NoDeleteCalls
  /\ \E c \in SupergraphConfigs :
       fetcherCall = [NoFetcherCall EXCEPT !.LaunchID = c.LaunchID,
                                           !.OfflineLicense = c.OfflineLicense,
                                           !.PersistedQueryVersion = c.PersistedQueryVersion]

\* What a fetcher has done when it returns: the call to the pinning store it
\* made, if any, and whether it queried uplink.
Fetched(kind, pinning, uplink, err) ==
  /\ fetcherCall.kind = ""
  /\ fetcherCall' = [fetcherCall EXCEPT !.kind = kind, !.pinning = pinning,
                                        !.uplink = uplink, !.err = err]
  /\ UNCHANGED nonFetcherVars

\* schema.FetchSchema
FetchSchema ==
  \E err \in BOOLEAN :
    IF fetcherCall.LaunchID # ""
    THEN Fetched("supergraph", [fn |-> "PinLaunchID", value |-> fetcherCall.LaunchID],
                 FALSE, err)
    ELSE Fetched("supergraph", NoPinCall, TRUE, err)

\* entitlements.FetchRouterLicense
FetchRouterLicense ==
  \E err \in BOOLEAN :
    IF fetcherCall.OfflineLicense # ""
    THEN Fetched("entitlements", [fn |-> "PinOfflineLicense", value |-> fetcherCall.LaunchID],
                 FALSE, err)
    ELSE Fetched("entitlements", NoPinCall, TRUE, err)

\* persistedqueries.FetchPQManifest
FetchPQManifest ==
  \E err \in BOOLEAN :
    IF fetcherCall.PersistedQueryVersion # ""
    THEN /\ ~err
         /\ Fetched("persistedQueries", NoPinCall, FALSE, FALSE)
    ELSE Fetched("persistedQueries", NoPinCall, TRUE, err)

\* The next fetch, for a graph of the configuration.
NextFetch ==
  /\ fetcherCall.kind # ""
  /\ \E c \in SupergraphConfigs :
       fetcherCall' = [NoFetcherCall EXCEPT !.LaunchID = c.LaunchID,
                                            !.OfflineLicense = c.OfflineLicense,
                                            !.PersistedQueryVersion = c.PersistedQueryVersion]
  /\ UNCHANGED nonFetcherVars

FetcherNext ==
  \/ FetchSchema
  \/ FetchRouterLicense
  \/ FetchPQManifest
  \/ NextFetch

FetcherSpec == FetcherInit /\ [][FetcherNext]_vars

\* The selector of the graph for an artifact kind, and the function of the
\* pinning store for it.
SelectorOf(kind) ==
  CASE kind = "supergraph"       -> fetcherCall.LaunchID
    [] kind = "entitlements"     -> fetcherCall.OfflineLicense
    [] kind = "persistedQueries" -> fetcherCall.PersistedQueryVersion

PinFunctionOf(kind) ==
  CASE kind = "supergraph"       -> "PinLaunchID"
    [] kind = "entitlements"     -> "PinOfflineLicense"
    [] kind = "persistedQueries" -> "PinPersistedQueries"

\* C32: a fetcher (schema, license or persisted queries) called for a graph
\* whose selector for that kind is set has called the pinning store with the
\* selector's value and has returned without a query to uplink.
C32_PinnedFetchDelegates ==
  (fetcherCall.kind # "" /\ SelectorOf(fetcherCall.kind) # "") =>
    /\ fetcherCall.pinning = [fn |-> PinFunctionOf(fetcherCall.kind),
                              value |-> SelectorOf(fetcherCall.kind)]
    /\ ~fetcherCall.uplink

\* ------------------------------------------------ a pass and its failures
\* The pass has left the graph behind: it has entered it and is now at
\* another graph or over.
LeftBehind(g) ==
  /\ \E k \in DOMAIN pollConfig.polling.enabled : pass.attempts[<<g, k>>] > 0
  /\ pollPc.graph # g

\* C33: in a polling pass a fetch that fails is made again until it succeeds
\* or polling.retryCount attempts have been made: no fetch is made more
\* than retryCount times, and none whose last attempt failed is left behind
\* after fewer than retryCount attempts.
C33_FailedFetchIsRetried ==
  \A f \in DOMAIN pass.attempts :
    /\ pass.attempts[f] <= pollConfig.polling.RetryCount
    /\ (f \in pass.failed /\ LeftBehind(f[1]))
         => pass.attempts[f] = pollConfig.polling.RetryCount

\* C40: when a pass has left a graph behind, every enabled artifact kind of
\* the graph has been fetched in the pass, whichever fetches of the graph
\* failed.
C40_OtherKindsStillFetched ==
  \A g \in 1..Len(Supergraphs) :
    (LeftBehind(g) /\ \E k \in DOMAIN pollConfig.polling.enabled : <<g, k>> \in pass.failed) =>
      \A k \in DOMAIN pollConfig.polling.enabled :
        pollConfig.polling.enabled[k] => pass.attempts[<<g, k>>] > 0

\* ------------------------------------------ DeleteWithPrefix on each layer
nonPrefixVars == <<relayVars, reloadVars, pollVars, handlerVars, keyVars, newestVars,
                   pqHitVars, chunkVars, layerVars, configVars, schedVars, selectorVars,
                   interceptVars, fetcherVars, pinnedVars, deleteVars>>

\* Keys and prefixes as strings over two characters, of length one or two.
Characters == <<"a", "b">>

PrefixKeys ==
  UNION { [1..n -> {Characters[i] : i \in 1..Len(Characters)}] : n \in 1..2 }

\* A layer holds at most MaxKeys of these keys, each with a content, and
\* DeleteWithPrefix is called on it.
PrefixInit ==
  /\ \E layer \in Layers, S \in SUBSET PrefixKeys, prefix \in PrefixKeys :
       /\ Cardinality(S) <= MaxKeys
       /\ prefixCall = [layer |-> layer, before |-> S, prefix |-> prefix, pc |-> "called"]
       /\ items = IF layer = "Memory"
                  THEN [k \in S |-> [Content |-> "content1", Expiration |-> IndefiniteTimestamp]]
                  ELSE <<>>
       /\ currentItems = IF layer = "Memory" THEN Cardinality(S) ELSE 0
       /\ files = IF layer = "Filesystem" THEN [k \in S |-> "content1"] ELSE <<>>
       /\ redisKeys = IF layer = "Redis"
                      THEN [k \in S |-> [Content |-> "content1", Expiration |-> 0]]
                      ELSE <<>>
  /\ maxItems = MaxKeys /\ now = 1
  /\ memOp = [op |-> "New"] /\ memHist = [pinned |-> FALSE]
  /\ caches = <<>> /\ tierDuration = -1 /\ tierOp = [op |-> "New"]
  /\ NoLifecycle /\ NoRelay
  /\ NoPoll /\ NoHandler /\ NoKeys /\ NoNewestCalls /\ NoPqHit /\ NoChunks /\ NoLayerCalls /\ NoConfig /\ NoSched /\ NoSelector /\ NoIntercepted /\ NoFetcherCalls /\ NoPinnedServe /\ NoDeleteCalls

\* The order os.ReadDir lists the file names in: sorted by name.
CharRank(c) == CHOOSE i \in 1..Len(Characters) : Characters[i] = c

NameLess(a, b) ==
  \/ CharRank(a[1]) < CharRank(b[1])
  \/ /\ a[1] = b[1]
     /\ \/ Len(a) = 1 /\ Len(b) = 2
        \/ Len(a) = 2 /\ Len(b) = 2 /\ CharRank(a[2]) < CharRank(b[2])

\* FilesystemCache.DeleteWithPrefix: the set of outcomes [files, pc].  The
\* names are taken in the order of ReadDir; file.Name()[:len(prefix)]
\* panics at the first name shorter than the prefix; ReadDir or a Remove
\* that fails returns an error, with the files removed so far gone.
FilesystemCacheDeleteWithPrefix(fs, prefix) ==
  LET short    == {k \in DOMAIN fs : Len(k) < Len(prefix)}
      matching == {k \in DOMAIN fs : HasPrefix(k, prefix)}
      upTo(stop) == {k \in matching : NameLess(k, stop)}
      left(D)  == [k \in DOMAIN fs \ D |-> fs[k]]
      firstShort == CHOOSE k \in short : \A o \in short : o = k \/ NameLess(k, o)
  IN  {[files |-> fs, pc |-> "error"]}
      \cup {[files |-> left(upTo(k)), pc |-> "error"] :
              k \in {m \in matching : short = {} \/ NameLess(m, firstShort)}}
      \cup (IF short = {} THEN {[files |-> left(matching), pc |-> "returned"]}
            ELSE {[files |-> left(upTo(firstShort)), pc |-> "panicked"]})

\* RedisCache.DeleteWithPrefix: the set of outcomes [redisKeys, pc].  The
\* error of Keys is not looked at: when the command fails, Val() is empty
\* and nil is returned; Del deletes all the keys found or fails.
RedisCacheDeleteWithPrefix(rk, prefix) ==
  LET matching == {k \in DOMAIN rk : HasPrefix(k, prefix)}
  IN  {[redisKeys |-> rk, pc |-> "returned"]}
      \cup (IF matching = {} THEN {}
            ELSE {[redisKeys |-> [k \in DOMAIN rk \ matching |-> rk[k]], pc |-> "returned"],
                  [redisKeys |-> rk, pc |-> "error"]})

\* DeleteWithPrefix(prefix) on the layer.
LayerDeleteWithPrefix ==
  /\ prefixCall.pc = "called"
  /\ CASE prefixCall.layer = "Memory" ->
            /\ \E o \in MemoryCacheDeleteWithPrefix(items, currentItems, prefixCall.prefix) :
                 /\ items' = o.items
                 /\ currentItems' = o.currentItems
                 /\ prefixCall' = [prefixCall EXCEPT
                      !.pc = IF o.panicked THEN "panicked" ELSE "returned"]
            /\ UNCHANGED <<files, redisKeys>>
       [] prefixCall.layer = "Filesystem" ->
            /\ \E o \in FilesystemCacheDeleteWithPrefix(files, prefixCall.prefix) :
                 /\ files' = o.files
                 /\ prefixCall' = [prefixCall EXCEPT !.pc = o.pc]
            /\ UNCHANGED <<items, currentItems, redisKeys>>
       [] prefixCall.layer = "Redis" ->
            /\ \E o \in RedisCacheDeleteWithPrefix(redisKeys, prefixCall.prefix) :
                 /\ redisKeys' = o.redisKeys
                 /\ prefixCall' = [prefixCall EXCEPT !.pc = o.pc]
            /\ UNCHANGED <<items, currentItems, files>>
  /\ UNCHANGED <<maxItems, now, memOp, memHist, caches, tierDuration, tierOp, nonPrefixVars>>

PrefixNext == LayerDeleteWithPrefix

PrefixSpec == PrefixInit /\ [][PrefixNext]_vars

\* The keys that began with the prefix are gone and the others are served
\* as before.
PrefixDeleted ==
  \A k \in prefixCall.before :
    IF HasPrefix(k, prefixCall.prefix)
    THEN ~LayerGet(prefixCall.layer, k).found
    ELSE LayerGet(prefixCall.layer, k) = [found |-> TRUE, content |-> "content1"]

\* C34: on every cache layer DeleteWithPrefix(p) comes back whatever keys are
\* stored, keys shorter than p among them, and when it has returned without
\* an error Get misses for every stored key that begins with p and every
\* other key is still there with its value.
C34_DeleteWithPrefixDeletesThePrefix ==
  /\ prefixCall.pc # "panicked"
  /\ prefixCall.pc = "returned" => PrefixDeleted

\* ------------------------------- RelayHandler: a miss on a pinned artifact
nonPinnedVars == <<tierVars, reloadVars, pollVars, handlerVars, keyVars, newestVars,
                   pqHitVars, chunkVars, layerVars, configVars, schedVars, selectorVars,
                   interceptVars, fetcherVars, prefixVars, deleteVars>>

\* The ids a pinned manifest may have.
PinnedManifestIds == {<<"abc", "1">>, <<"abc", "2">>}

\* What insertPinnedCacheEntry stores: the item with its ID, never to
\* expire.
PinnedEntry(content, id, modifiedTime) ==
  [Content |-> [Content |-> content, Hash |-> HashString(content),
                LastModified |-> modifiedTime, ID |-> id],
   Expiration |-> IndefiniteTimestamp]

\* The ifAfterIds of the requests: "", an instant or a text that is not one
\* for schemas and licenses; "" or the id of a manifest for persisted
\* queries.
IfAfterIds(operationName) ==
  IF operationName = PersistedQueriesQuery THEN ManifestIds
  ELSE {NoIfAfterId, <<-1>>} \cup {<<t>> : t \in 1..MaxTime}

\* The graph pins the artifact of the operation under study (launchID,
\* offlineLicense or persistedQueryVersion is set); the pinning at startup
\* has stored the pinned entry, or has failed, which startup only logs.
PinnedInit ==
  /\ studied \in CachedOperations
  /\ launchID = "launch1"
  /\ cacheDuration = -1
  /\ proc = [w \in Writers |-> IdleProc]
  /\ newest = NoNewest
  /\ proxied = NoProxied
  /\ now \in 1..MaxTime
  /\ \/ items = <<>>
     \/ \E modifiedTime \in 1..now :
        \E id \in IF studied = PersistedQueriesQuery THEN PinnedManifestIds ELSE {<<>>} :
          items = (<<GraphRef, OperationMapping(studied)>> :>
                     PinnedEntry(PinnedSdl, id, modifiedTime))
  /\ currentItems = Cardinality(DOMAIN items)
  /\ maxItems = MaxCapacity
  /\ memOp = [op |-> "New"] /\ memHist = [pinned |-> FALSE]
  /\ NoTieredCache /\ NoLifecycle
  /\ NoPoll /\ NoHandler /\ NoKeys /\ NoNewestCalls /\ NoPqHit /\ NoChunks /\ NoLayerCalls /\ NoConfig /\ NoSched /\ NoSelector /\ NoIntercepted /\ NoFetcherCalls /\ NoPrefixCalls /\ NoDeleteCalls
  /\ pinnedServe = NoPinnedRequest

\* handleCacheHit on the item the handler hands it: a nil item is
\* dereferenced in the license and the persisted-query branches, the
\* handler panics and net/http closes the connection without an answer.
PinnedHit(operationName, s, ifAfterId) ==
  IF ~s.ok THEN [status |-> 0, typename |-> "", aborted |-> TRUE]
  ELSE IF operationName = PersistedQueriesQuery
  THEN [status |-> 200, typename |-> PersistedQueriesHit(s.item.ID, ifAfterId).typename,
        aborted |-> FALSE]
  ELSE [status |-> 200,
        typename |-> IF s.item.Content = Unchanged THEN "Unchanged" ELSE "Result",
        aborted |-> FALSE]

\* RelayHandler after the miss, for a graph that pins the artifact: for a
\* schema a nil entry or an error is answered with 500; for a license and
\* a manifest the entry goes to handleCacheHit as it is.
ServePinned ==
  /\ \E ifAfterId \in IfAfterIds(studied) :
       LET s == HandlePinnedEntry(items, now, GraphRef, studied, ifAfterId)
       IN  pinnedServe' =
             [operationName |-> studied, ifAfterId |-> ifAfterId,
              answer |-> IF studied = SupergraphQuery /\ (s.err \/ ~s.ok)
                         THEN [status |-> 500, typename |-> "", aborted |-> FALSE]
                         ELSE PinnedHit(studied, s, ifAfterId)]
  /\ UNCHANGED <<memVars, relayVars, nonPinnedVars>>

\* Time passes between two requests.
PinnedTick ==
  /\ now < MaxTime
  /\ now' = now + 1
  /\ UNCHANGED <<items, currentItems, maxItems, memOp, memHist, relayVars, pinnedServe,
                 nonPinnedVars>>

PinnedNext ==
  \/ ServePinned
  \/ PinnedTick

PinnedSpec == PinnedInit /\ [][PinnedNext]_vars

\* The pinned entry of the operation, as stored.
PinnedStored == <<GraphRef, OperationMapping(studied)>> \in DOMAIN items

\* C35: for a graph with a pinned persisted-query version, a
\* PersistedQueriesManifestQuery that misses the live cache and carries a
\* non-empty ifAfterId is answered with Unchanged when the pinned manifest is
\* not newer than the ifAfterId (same id, version not above the request's).
C35_PinnedManifestUnchanged ==
  (/\ pinnedServe.operationName = PersistedQueriesQuery
   /\ pinnedServe.ifAfterId # <<"">>
   /\ PinnedStored
   /\ LET cached == DecodeID(items[<<GraphRef, PersistedQueriesPinned>>].Content.ID)
          after  == DecodeID(pinnedServe.ifAfterId)
      IN  cached.id = after.id /\ after.version >= cached.version)
  => (/\ ~pinnedServe.answer.aborted
      /\ pinnedServe.answer.status = 200
      /\ pinnedServe.answer.typename = "Unchanged")

\* C36: when the graph pins a license or a persisted-query version and no
\* pinned entry is in the cache, a request for it is answered with a status
\* and the handler does not crash.
C36_MissingPinnedEntryAnswered ==
  (/\ pinnedServe.operationName \in {LicenseQuery, PersistedQueriesQuery}
   /\ ~PinnedStored)
  => (~pinnedServe.answer.aborted /\ pinnedServe.answer.status # 0)

\* ----------------------------------------- eviction and the stored entries
\* C37: a Set of the memory cache evicts an entry other than the one it
\* sets only when the number of entries stored has reached the capacity,
\* however often keys already present have been set again: the count of the
\* items does not drift from the number of stored entries.
C37_EvictsOnlyAtCapacity ==
  [][(/\ memOp'.op = "Set"
      /\ memOp'.evicted \in DOMAIN items
      /\ memOp'.evicted # memOp'.key)
       => Cardinality(DOMAIN items) >= maxItems]_vars

\* ------------------------------------------------------- DeleteCacheEntry
nonDeleteVars == <<tierVars, reloadVars, relayVars, pollVars, handlerVars, keyVars,
                   newestVars, pqHitVars, chunkVars, layerVars, configVars, schedVars,
                   selectorVars, interceptVars, fetcherVars, prefixVars, pinnedVars>>

\* enum OperationType
OperationTypes == {"SCHEMA", "ENTITLEMENT", "PERSISTED_QUERY_MANIFEST"}

\* The operation whose prefix DeleteCacheEntry makes for an operation type.
PrefixOperation(operationType) ==
  CASE operationType = "SCHEMA"      -> SupergraphQuery
    [] operationType = "ENTITLEMENT" -> LicenseQuery
    [] OTHER                         -> PersistedQueriesQuery

\* util.ParseGraphRef: the graph id of a graph ref that parses.
GraphID(graphRef) == IF graphRef = "graph@variant" THEN "graph" ELSE "other"

\* fmt.Sprintf("pq:%s/", graphID), and the key of a chunk of the manifest
\* whose id is graphID/version: the id is written in its two parts.
ChunkPrefix(graphID) == <<"pq", graphID>>

ChunkKey(graphID, version, index) == <<"pq", graphID, version, index>>

\* The keys a cache may hold for a graph: what the relay caches for each
\* operation, the pinned entries, and a chunk of its manifest.
EntryKeys(graphRef) ==
  {DefaultCacheKey(graphRef, operationName) : operationName \in CachedOperations}
    \cup {<<graphRef, OperationMapping(operationName)>> : operationName \in CachedOperations}
    \cup {ChunkKey(GraphID(graphRef), "1", "0")}

\* The number of characters of a name as it stands in a key ("@" is ":"
\* there).
NameLength ==
  [name \in {"graph@variant", "other@variant", "graph", "other", SupergraphQuery,
             LicenseQuery, PersistedQueriesQuery, SupergraphPinned, LicensePinned,
             PersistedQueriesPinned} |->
     CASE name \in {"graph@variant", "other@variant", LicensePinned} -> 13
       [] name \in {"graph", "other"}    -> 5
       [] name = SupergraphQuery         -> 18
       [] name = LicenseQuery            -> 12
       [] name = PersistedQueriesQuery   -> 29
       [] name = SupergraphPinned        -> 16
       [] name = PersistedQueriesPinned  -> 22]

\* len of the string a key or prefix stands for: the names, the separators
\* and, in the key of a cached response, the 64 hex digits of the hash.
StringLength(key) ==
  IF key = <<>> THEN 0
  ELSE IF key[1] = "pq"
       THEN 2 + 1 + NameLength[key[2]] + 1 + (IF Len(key) = 4 THEN 1 + 1 + 1 ELSE 0)
  ELSE NameLength[key[1]] + 1 + NameLength[key[2]] + (IF Len(key) = 3 THEN 1 + 64 ELSE 0)

\* MemoryCache.DeleteWithPrefix on these keys: k[:len(prefix)] panics on
\* a key whose string is shorter than the prefix.
EntryDeleteWithPrefix(its, cur, prefix) ==
  DeleteWithPrefixOutcomes(its, cur, prefix,
                           {k \in DOMAIN its : StringLength(k) < StringLength(prefix)})

\* DeleteCacheEntry's loop over the operation types: the set of outcomes
\* [items, currentItems, pc], pc "returned" for success, "failed" for an
\* error returned, "panicked" for a panic in DeleteWithPrefix.
RECURSIVE DeleteEntries(_, _, _, _)
DeleteEntries(its, cur, graphRef, operations) ==
  LET end(i, c, pc) == [items |-> i, currentItems |-> c, pc |-> pc]
  IN  IF operations = <<>> THEN {end(its, cur, "returned")}
      ELSE
        LET operationName == Head(operations)
            prefix == MakeCachePrefix(graphRef, PrefixOperation(operationName))
            chunks ==
              IF operationName # "PERSISTED_QUERY_MANIFEST" THEN {end(its, cur, "go")}
              ELSE IF ~ParseGraphRef(graphRef) THEN {end(its, cur, "failed")}
              ELSE {end(o.items, o.currentItems, IF o.panicked THEN "panicked" ELSE "go") :
                      o \in EntryDeleteWithPrefix(its, cur, ChunkPrefix(GraphID(graphRef)))}
        IN  UNION { IF a.pc # "go" THEN {a}
                    ELSE UNION { IF o.panicked
                                 THEN {end(o.items, o.currentItems, "panicked")}
                                 ELSE DeleteEntries(o.items, o.currentItems, graphRef,
                                                    Tail(operations)) :
                                 o \in EntryDeleteWithPrefix(a.items, a.currentItems, prefix) } :
                    a \in chunks }

\* The graph refs the mutation may be given: one of a graph with entries in
\* the cache, and one without an "@".
DeleteCacheEntryInputs ==
  [GraphRef : {"graph@variant", "graph"},
   Operation : UNION {[1..n -> OperationTypes] : n \in 1..2}]

\* A memory cache that holds at most MaxKeys entries of two graphs, and a
\* deleteCacheEntry mutation come in.
DeleteInit ==
  /\ \E S \in SUBSET UNION {EntryKeys(g) : g \in GraphRefs}, input \in DeleteCacheEntryInputs :
       /\ Cardinality(S) <= MaxKeys
       /\ items = [k \in S |-> [Content |-> "content1", Expiration |-> IndefiniteTimestamp]]
       /\ currentItems = Cardinality(S)
       /\ deleteCall = [GraphRef |-> input.GraphRef, Operation |-> input.Operation,
                        before |-> S, pc |-> "called"]
  /\ maxItems = MaxKeys /\ now = 1
  /\ memOp = [op |-> "New"] /\ memHist = [pinned |-> FALSE]
  /\ NoTieredCache /\ NoLifecycle /\ NoRelay
  /\ NoPoll /\ NoHandler /\ NoKeys /\ NoNewestCalls /\ NoPqHit /\ NoChunks /\ NoLayerCalls /\ NoConfig /\ NoSched /\ NoSelector /\ NoIntercepted /\ NoFetcherCalls /\ NoPrefixCalls /\ NoPinnedServe

\* The resolver of the deleteCacheEntry mutation.
DeleteCacheEntry ==
  /\ deleteCall.pc = "called"
  /\ \E o \in DeleteEntries(items, currentItems, deleteCall.GraphRef, deleteCall.Operation) :
       /\ items' = o.items
       /\ currentItems' = o.currentItems
       /\ deleteCall' = [deleteCall EXCEPT !.pc = o.pc]
  /\ UNCHANGED <<maxItems, now, memOp, memHist, nonDeleteVars>>

DeleteNext == DeleteCacheEntry

DeleteSpec == DeleteInit /\ [][DeleteNext]_vars

\* An entry of the graph named by graphRef for one of the operation types,
\* or a chunk of that graph's manifest.
EntryOf(key, graphRef, operations) ==
  \/ /\ Len(key) = 3
     /\ key[1] = graphRef
     /\ \E i \in 1..Len(operations) : key[2] = PrefixOperation(operations[i])
  \/ /\ key[1] = "pq"
     /\ ParseGraphRef(graphRef)
     /\ key[2] = GraphID(graphRef)

\* C39: whatever graphRef it is given, one without an "@" included,
\* DeleteCacheEntry removes only entries of that graph for the operations
\* named (and chunks of that graph's manifest): the entries of other
\* graphs, of other operations and the pinned entries remain.
C39_DeletesOnlyTheEntry ==
  deleteCall.pc \in {"returned", "failed", "panicked"} =>
    \A key \in deleteCall.before \ DOMAIN items :
      EntryOf(key, deleteCall.GraphRef, deleteCall.Operation)

====
